---------------------------- MODULE Spec2Model ----------------------------
(***************************************************************************)
(* A model of the QKD protocol engine of csdarling/AdvProject:             *)
(* components.py (parties, quantum and classical channels),                *)
(* network_manager.py (the directed graph and eavesdropper insertion) and  *)
(* qkd_protocols.py (2-party BB84, chained BB84, star-graph protocol 2 and *)
(* the run loop).                                                          *)
(*                                                                         *)
(* A python dict is a TLA+ function; a ledger {timestep: {uid: value}} is  *)
(* a function from timesteps to functions from uids to values.  Objects    *)
(* that the code shares by reference (quantum channels) live in a heap     *)
(* `chans` indexed by a channel identity.                                  *)
(***************************************************************************)
EXTENDS Integers, Sequences, FiniteSets, TLC

VARIABLES
    parties,    \* NetworkManager.parties: uid -> Party object
    chans,      \* heap of QuantumChannel objects: identity -> object
    network,    \* NetworkManager.network: the edges of the nx.DiGraph
    qchls,      \* NetworkManager.qchls: edge key -> channel identity
    nm,         \* NetworkManager scalar fields (timestep, intercepted_edges)
    cchl,       \* the ClassicalChannel object
    proto,      \* the QKDProtocol object (counters, flags, stored_data)
    caller,     \* position of the caller inside run / run_n_steps
    error       \* the exception that ended the last call, or "none"

vars == <<parties, chans, network, qchls, nm, cchl, proto, caller, error>>

-----------------------------------------------------------------------------
(* Bounds of the model.                                                    *)

\* Iterations executed per behaviour by single run_one_step calls.
MaxIter == 2
\* Largest explicit iteration count handed to run / run_n_steps.
MaxN == 2
\* Largest key_length handed to run().
MaxKeyLen == 1
\* Largest check-bit count that required_num_check_bits tells apart; larger
\* requirements read ReqCap + 1.
ReqCap == 12

-----------------------------------------------------------------------------
(* Values.                                                                 *)

None == "None"
\* None where the code keeps a uid (tstep_tx_uid, forward_id, rx_device).
NoUid == -1
\* None where the code keeps a bit (forwarding without measuring).
NoBit == -1
Bits == {0, 1}
\* consts.STD_BASIS / consts.HAD_BASIS
Bases == {"STD", "HAD"}

\* math.inf, the start value of the minimum searches
Inf == 1000000

\* An empty python dict.
EmptyMap == [x \in {} |-> 0]

\* d[k] = v on a dict.
Put(d, k, v) == [x \in (DOMAIN d) \cup {k} |-> IF x = k THEN v ELSE d[x]]

\* d.pop(k) on a dict.
Pop(d, k) == [x \in (DOMAIN d) \ {k} |-> d[x]]

Min2(a, b) == IF a < b THEN a ELSE b

\* The elements of a finite set of integers in increasing order: sorted(...).
RECURSIVE Sorted(_)
Sorted(S) ==
    IF S = {} THEN <<>>
    ELSE LET m == CHOOSE x \in S : \A y \in S : x <= y
         IN <<m>> \o Sorted(S \ {m})

\* shared_fns.reorder_by_uid: {timestep: {uid: v}} -> {uid: {timestep: v}}
reorder_by_uid(by_timestep) ==
    LET uids == UNION {DOMAIN by_timestep[t] : t \in DOMAIN by_timestep}
    IN [u \in uids |->
          [t \in {s \in DOMAIN by_timestep : u \in DOMAIN by_timestep[s]} |->
              by_timestep[t][u]]]

\* The mutant of store_value_in_dict: the ledger is started afresh.
store_value_in_dict_fresh(d, t, key, val) ==
    Put(EmptyMap, t, Put(EmptyMap, key, val))

\* Party.store_value_in_dict with the party's timestep t: d[t][key] = val
store_value_in_dict(d, t, key, val) ==
    LET inner == IF t \in DOMAIN d THEN d[t] ELSE EmptyMap
    IN Put(d, t, Put(inner, key, val))

-----------------------------------------------------------------------------
(* Quantum states.  Every state of these protocols is an eigenvector of    *)
(* one of the two bases: [basis, bit] is the eigenvector of `basis` with   *)
(* eigenvalue `bit` (Party.send_state generates basis[bit]).               *)

generate_state(basis, bit) == [basis |-> basis, bit |-> bit]

\* The mutant of measure: the matching-basis outcome is inverted.
measure_flipped(q, basis) ==
    IF q.basis = basis
    THEN {[bit |-> 1 - q.bit, q |-> q]}
    ELSE {[bit |-> b, q |-> [basis |-> basis, bit |-> b]] : b \in Bits}

\* The mutant of measure: the state is left as it was sent, whatever the
\* basis it is measured in.
measure_no_collapse(q, basis) ==
    IF q.basis = basis
    THEN {[bit |-> q.bit, q |-> q]}
    ELSE {[bit |-> b, q |-> q] : b \in Bits}

\* The mutant of measure: either outcome can be drawn, also for an
\* eigenvector of the operator.
measure_any_outcome(q, basis) ==
    {[bit |-> b, q |-> [basis |-> basis, bit |-> b]] : b \in Bits}

\* NQubitState.measure with the operator of `basis`: the outcomes that have
\* non-zero probability, each with the collapsed state.  An eigenvector of
\* the operator yields its eigenvalue and is left alone; an eigenvector of
\* the other basis projects onto either eigenvector with probability 1/2.
measure(q, basis) ==
    IF q.basis = basis
    THEN {[bit |-> q.bit, q |-> q]}
    ELSE {[bit |-> b, q |-> [basis |-> basis, bit |-> b]] : b \in Bits}


\* NQubitState.measure, prob_distr: twice the probability with which
\* measure(q, basis) gives `bit` (abs(evector.dot(psi)) ** 2 is 1 or 0 for an
\* eigenvector of the operator and 1/2 for one of the other basis).
measure_probability2(q, basis, bit) ==
    IF q.basis = basis THEN (IF q.bit = bit THEN 2 ELSE 0) ELSE 1

-----------------------------------------------------------------------------
(* Party (components.py).                                                  *)

\* The ledgers and counters that Party.reset sets (timestep 0).
PartyResetFields ==
    [timestep |-> 0,
     total_qstates_generated |-> 0,
     total_qstates_transmitted |-> 0,
     total_qstates_received |-> 0,
     total_qstates_measured |-> 0,
     total_qstates_forwarded |-> 0,
     measure_received_qstates |-> TRUE,
     tx_bases |-> Put(EmptyMap, 0, EmptyMap),
     rx_bases |-> Put(EmptyMap, 0, EmptyMap),
     tx_bits |-> Put(EmptyMap, 0, EmptyMap),
     rx_bits |-> Put(EmptyMap, 0, EmptyMap),
     sifted_keys |-> EmptyMap,
     check_bits |-> EmptyMap,
     secret_keys |-> EmptyMap,
     compromised_chls |-> <<>>,
     tstep_rx_bases |-> EmptyMap,
     tstep_tx_uid |-> NoUid,
     stored_data |-> EmptyMap]

\* Party.__init__ (with QuantumDevice.__init__): a party with no sockets.
NewParty(uid, is_eve) ==
    [uid |-> uid,
     is_eve |-> is_eve,
     tx_sockets |-> EmptyMap,
     rx_sockets |-> EmptyMap,
     rx_actions |-> EmptyMap,
     timestep |-> PartyResetFields.timestep,
     total_qstates_generated |-> PartyResetFields.total_qstates_generated,
     total_qstates_transmitted |-> PartyResetFields.total_qstates_transmitted,
     total_qstates_received |-> PartyResetFields.total_qstates_received,
     total_qstates_measured |-> PartyResetFields.total_qstates_measured,
     total_qstates_forwarded |-> PartyResetFields.total_qstates_forwarded,
     measure_received_qstates |-> PartyResetFields.measure_received_qstates,
     tx_bases |-> PartyResetFields.tx_bases,
     rx_bases |-> PartyResetFields.rx_bases,
     tx_bits |-> PartyResetFields.tx_bits,
     rx_bits |-> PartyResetFields.rx_bits,
     sifted_keys |-> PartyResetFields.sifted_keys,
     check_bits |-> PartyResetFields.check_bits,
     secret_keys |-> PartyResetFields.secret_keys,
     compromised_chls |-> PartyResetFields.compromised_chls,
     tstep_rx_bases |-> PartyResetFields.tstep_rx_bases,
     tstep_tx_uid |-> PartyResetFields.tstep_tx_uid,
     stored_data |-> PartyResetFields.stored_data]

\* Party.store_timestep_data: a deep copy of the configuration, under the
\* party's own timestep.
PartySnapshot(p) ==
    [total_qstates_generated |-> p.total_qstates_generated,
     total_qstates_transmitted |-> p.total_qstates_transmitted,
     total_qstates_received |-> p.total_qstates_received,
     total_qstates_measured |-> p.total_qstates_measured,
     total_qstates_forwarded |-> p.total_qstates_forwarded,
     measure_received_qstates |-> p.measure_received_qstates,
     tx_bases |-> p.tx_bases,
     rx_bases |-> p.rx_bases,
     tx_bits |-> p.tx_bits,
     rx_bits |-> p.rx_bits,
     sifted_keys |-> p.sifted_keys,
     check_bits |-> p.check_bits,
     secret_keys |-> p.secret_keys,
     compromised_chls |-> p.compromised_chls,
     tstep_rx_bases |-> p.tstep_rx_bases,
     tstep_tx_uid |-> p.tstep_tx_uid]

party_store_timestep_data(p) ==
    [p EXCEPT !.stored_data = Put(@, p.timestep, PartySnapshot(p))]

\* Party.reset_tstep_fields
party_reset_tstep_fields(p) ==
    [p EXCEPT !.tstep_rx_bases = EmptyMap, !.tstep_tx_uid = NoUid]

\* UIComponent.next_timestep on a party: store, reset, increment.
party_next_timestep(p) ==
    LET p1 == party_reset_tstep_fields(party_store_timestep_data(p))
    IN [p1 EXCEPT !.timestep = @ + 1]

\* Party.expect_tx_from
expect_tx_from(p, tx_uid) == [p EXCEPT !.tstep_tx_uid = tx_uid]

\* Party.measure_wrt
measure_wrt(p, basis) ==
    [p EXCEPT !.tstep_rx_bases = Put(@, p.tstep_tx_uid, basis),
              !.measure_received_qstates = TRUE]

\* Party.set_basis(tx_uid, basis), which the protocols call and components.py
\* does not define: arm `basis` against the sender tx_uid.
set_basis(p, tx_uid, basis) == measure_wrt(expect_tx_from(p, tx_uid), basis)

\* QuantumDevice.update_rx_action
update_rx_action(p, socket_id, action, value) ==
    [p EXCEPT !.rx_actions[socket_id] =
        IF action = "forward" THEN [@ EXCEPT !.forward = value]
        ELSE IF action = "forward_id" THEN [@ EXCEPT !.forward_id = value]
        ELSE IF action = "measure" THEN [@ EXCEPT !.measure = value]
        ELSE [@ EXCEPT !.meas_basis = value]]

\* Party.forward(rx_socket, target_uid), which ChainedBB84 calls and
\* components.py does not define: forward what arrives from rx_socket.
forward(p, socket_id, target_uid) ==
    update_rx_action(update_rx_action(p, socket_id, "forward", TRUE),
                     socket_id, "forward_id", target_uid)

\* Party.synch_sifted_and_secret_keys
synch_sifted_and_secret_keys(p) == [p EXCEPT !.secret_keys = p.sifted_keys]

\* Whether the party recorded a tx bit / an rx bit for uid in this timestep.
HasTxBit(p, uid) ==
    p.timestep \in DOMAIN p.tx_bits /\ uid \in DOMAIN p.tx_bits[p.timestep]

HasRxBit(p, uid) ==
    p.timestep \in DOMAIN p.rx_bits /\ uid \in DOMAIN p.rx_bits[p.timestep]

\* The mutant of BitForKeys: the rx bit takes precedence over the tx bit.
BitForKeysRxFirst(p, uid) ==
    IF HasRxBit(p, uid) THEN p.rx_bits[p.timestep][uid]
    ELSE p.tx_bits[p.timestep][uid]

\* The bit that add_bit_to_keys stores for uid when one exists: the rx bit,
\* overwritten by the tx bit when both exist.
BitForKeys(p, uid) ==
    IF HasTxBit(p, uid) THEN p.tx_bits[p.timestep][uid]
    ELSE p.rx_bits[p.timestep][uid]

\* Party.add_bit_to_keys
add_bit_to_keys(p, uid) ==
    LET p1 == IF HasTxBit(p, uid) \/ HasRxBit(p, uid)
              THEN [p EXCEPT !.sifted_keys =
                        store_value_in_dict(@, p.timestep, uid,
                                            BitForKeys(p, uid))]
              ELSE p
    IN synch_sifted_and_secret_keys(p1)

\* Party.add_all_bits_to_keys: every uid of this timestep's rx and tx bits.
add_all_bits_to_keys(p) ==
    LET t == p.timestep
        rxU == IF t \in DOMAIN p.rx_bits THEN DOMAIN p.rx_bits[t] ELSE {}
        txU == IF t \in DOMAIN p.tx_bits THEN DOMAIN p.tx_bits[t] ELSE {}
        U == rxU \cup txU
        old == IF t \in DOMAIN p.sifted_keys THEN p.sifted_keys[t] ELSE EmptyMap
        new == [u \in (DOMAIN old) \cup U |->
                   IF u \in U THEN BitForKeys(p, u) ELSE old[u]]
        p1 == IF U = {} THEN p
              ELSE [p EXCEPT !.sifted_keys = Put(@, t, new)]
    IN synch_sifted_and_secret_keys(p1)

\* Party.add_check_bit when it does not raise (see add_check_bit_raises,
\* which the protocols never provoke: they sift before they draw check bits).
add_check_bit(p, uid) ==
    LET t == p.timestep
    IN IF t \in DOMAIN p.sifted_keys /\ uid \in DOMAIN p.sifted_keys[t]
       THEN [p EXCEPT !.check_bits =
                store_value_in_dict(@, t, uid, p.sifted_keys[t][uid])]
       ELSE p

\* Whether Party.add_check_bit raises KeyError: self.sifted_keys[self.timestep]
\* is read before anything is tested.
add_check_bit_raises(p, uid) == p.timestep \notin DOMAIN p.sifted_keys

\* A mutant of remove_check_bits_from_secret_keys: the timesteps left empty
\* stay in secret_keys.
remove_check_bits_leave_empty(p) ==
    [p EXCEPT !.secret_keys =
        [t \in DOMAIN @ |->
            IF t \in DOMAIN p.check_bits
            THEN [u \in (DOMAIN @[t]) \ (DOMAIN p.check_bits[t]) |-> @[t][u]]
            ELSE @[t]]]

\* The mutant of remove_check_bits_from_secret_keys: nothing is removed.
remove_check_bits_keep(p) == p

\* Party.remove_check_bits_from_secret_keys
remove_check_bits_from_secret_keys(p) ==
    LET sk == p.secret_keys
        cb == p.check_bits
        popped == [t \in DOMAIN sk |->
                     IF t \in DOMAIN cb
                     THEN [u \in (DOMAIN sk[t]) \ (DOMAIN cb[t]) |-> sk[t][u]]
                     ELSE sk[t]]
        kept == {t \in DOMAIN popped : DOMAIN popped[t] # {}}
    IN [p EXCEPT !.secret_keys = [t \in kept |-> popped[t]]]


-----------------------------------------------------------------------------
(* ClassicalChannel (components.py).                                       *)

\* ClassicalChannel.reset
NewCchl == [timestep |-> 0, tstep_messages |-> EmptyMap, stored_data |-> EmptyMap]

\* ClassicalChannel.store_timestep_data: the whole of stored_data is replaced
\* by one entry under the key "tstep_messages".
cchl_store_timestep_data(c) ==
    [c EXCEPT !.stored_data = [tstep_messages |-> c.tstep_messages]]

\* ClassicalChannel.reset_tstep_fields
cchl_reset_tstep_fields(c) == [c EXCEPT !.tstep_messages = EmptyMap]

\* UIComponent.next_timestep on the classical channel.
cchl_next_timestep(c) ==
    LET c1 == cchl_reset_tstep_fields(cchl_store_timestep_data(c))
    IN [c1 EXCEPT !.timestep = @ + 1]

\* ClassicalChannel.add_message
add_message(c, sender_uid, message) ==
    LET old == IF sender_uid \in DOMAIN c.tstep_messages
               THEN c.tstep_messages[sender_uid] ELSE <<>>
    IN [c EXCEPT !.tstep_messages = Put(@, sender_uid, Append(old, message))]

\* The positions of sender_uid's messages of the given type and timestep.
MsgIdx(c, sender_uid, type, timestep) ==
    IF sender_uid \notin DOMAIN c.tstep_messages THEN {}
    ELSE {i \in DOMAIN c.tstep_messages[sender_uid] :
            /\ c.tstep_messages[sender_uid][i].type = type
            /\ c.tstep_messages[sender_uid][i].timestep = timestep}

\* The data of the last such message (the retrieval loops overwrite).
LastMsgData(c, sender_uid, type, timestep) ==
    LET I == MsgIdx(c, sender_uid, type, timestep)
        i == CHOOSE x \in I : \A y \in I : y <= x
    IN c.tstep_messages[sender_uid][i].data

\* ClassicalChannel.get_tx_bases
get_tx_bases(c, timestep) ==
    LET S == {u \in DOMAIN c.tstep_messages :
                MsgIdx(c, u, "broadcast_tx_bases", timestep) # {}}
    IN [u \in S |-> LastMsgData(c, u, "broadcast_tx_bases", timestep)]

\* ClassicalChannel.get_rx_bases
get_rx_bases(c, timestep) ==
    LET S == {u \in DOMAIN c.tstep_messages :
                MsgIdx(c, u, "broadcast_rx_bases", timestep) # {}}
    IN [u \in S |-> LastMsgData(c, u, "broadcast_rx_bases", timestep)]

\* ClassicalChannel.get_msg_check_bits
get_msg_check_bits(c, timestep, sender_uid) ==
    IF MsgIdx(c, sender_uid, "broadcast_check_bits", timestep) = {}
    THEN EmptyMap
    ELSE LastMsgData(c, sender_uid, "broadcast_check_bits", timestep)

\* ClassicalChannel.get_flip_bit_instructions
get_flip_bit_instructions(c, timestep, sender_uid) ==
    IF MsgIdx(c, sender_uid, "broadcast_flip_bit_instructions", timestep) = {}
    THEN EmptyMap
    ELSE LastMsgData(c, sender_uid, "broadcast_flip_bit_instructions", timestep)

\* The mutant of get_msg_key_length: an absent message reads as length 0.
get_msg_key_length_zero(c, timestep, sender_uid) ==
    IF MsgIdx(c, sender_uid, "broadcast_key_length", timestep) = {}
    THEN 0
    ELSE LastMsgData(c, sender_uid, "broadcast_key_length", timestep)

\* ClassicalChannel.get_msg_key_length
get_msg_key_length(c, timestep, sender_uid) ==
    IF MsgIdx(c, sender_uid, "broadcast_key_length", timestep) = {}
    THEN Inf
    ELSE LastMsgData(c, sender_uid, "broadcast_key_length", timestep)

\* Party.broadcast_tx_bases: the message carries the timestep argument.
broadcast_tx_bases(c, p, timestep) ==
    add_message(c, p.uid,
        [timestep |-> timestep,
         type |-> "broadcast_tx_bases",
         data |-> IF timestep \in DOMAIN p.tx_bases
                  THEN p.tx_bases[timestep] ELSE EmptyMap])

\* Party.broadcast_rx_bases: the message carries the party's own timestep.
broadcast_rx_bases(c, p, timestep) ==
    add_message(c, p.uid,
        [timestep |-> p.timestep,
         type |-> "broadcast_rx_bases",
         data |-> IF timestep \in DOMAIN p.rx_bases
                  THEN p.rx_bases[timestep] ELSE EmptyMap])

\* Party.broadcast_check_bits
broadcast_check_bits(c, p) ==
    add_message(c, p.uid,
        [timestep |-> p.timestep,
         type |-> "broadcast_check_bits",
         data |-> p.check_bits])

\* The mutant of CheckBitsCompromised: only the current timestep is compared.
CheckBitsCompromisedNow(p, sender_uid, sender_check_bits) ==
    LET theirs == reorder_by_uid(sender_check_bits)
        own == reorder_by_uid(p.check_bits)
    IN /\ p.uid \in DOMAIN theirs
       /\ sender_uid \in DOMAIN own
       /\ p.timestep \in DOMAIN theirs[p.uid]
       /\ p.timestep \in DOMAIN own[sender_uid]
       /\ theirs[p.uid][p.timestep] # own[sender_uid][p.timestep]

\* The test of Party.receive_check_bits: both parties hold check bits for
\* each other and the two {timestep: bit} dicts are not equal.
CheckBitsCompromised(p, sender_uid, sender_check_bits) ==
    LET theirs == reorder_by_uid(sender_check_bits)
        own == reorder_by_uid(p.check_bits)
    IN /\ p.uid \in DOMAIN theirs
       /\ sender_uid \in DOMAIN own
       /\ theirs[p.uid] # own[sender_uid]

\* Party.receive_check_bits
receive_check_bits(c, p, sender_uid) ==
    LET sender_check_bits == get_msg_check_bits(c, p.timestep, sender_uid)
    IN IF CheckBitsCompromised(p, sender_uid, sender_check_bits)
       THEN [p EXCEPT !.compromised_chls = Append(@, sender_uid)]
       ELSE p


-----------------------------------------------------------------------------
(* QuantumChannel and the quantum side of Party / QuantumDevice.           *)
(* A world w = [parties, chans, cchl, err] is the part of the heap that a  *)
(* call chain mutates; err names the exception that is propagating.        *)

\* tstep_state = None
NoState == [basis |-> None, bit |-> NoBit]

\* QuantumChannel.__init__ / reset
NewChannel ==
    [tx_device |-> NoUid,
     rx_device |-> NoUid,
     rx_device_socket_id |-> NoUid,
     intercepted |-> FALSE,
     timestep |-> 0,
     tstep_state |-> NoState,
     stored_data |-> EmptyMap]

\* QuantumChannel.store_timestep_data
chan_store_timestep_data(ch) ==
    [ch EXCEPT !.stored_data = Put(@, ch.timestep, [state |-> ch.tstep_state])]

\* QuantumChannel.next_timestep
chan_next_timestep(ch) ==
    [chan_store_timestep_data(ch) EXCEPT !.tstep_state = NoState,
                                         !.timestep = @ + 1]

\* QuantumChannel.disconnect_rx_device
disconnect_rx_device(ch) ==
    [ch EXCEPT !.rx_device = NoUid, !.rx_device_socket_id = NoUid]

\* The mutant of connect_rx_qchl: the channel's receiving end is left as it is
\* and only the party's own socket table is updated.
connect_rx_qchl_keep(w, uid, id, tx_uid) ==
    [w EXCEPT
        !.parties[uid].rx_sockets = Put(@, tx_uid, id),
        !.parties[uid].rx_actions = Put(@, tx_uid,
            [measure |-> TRUE, meas_basis |-> "STD",
             forward |-> FALSE, forward_id |-> NoUid])]

\* QuantumDevice.connect_tx_qchl with QuantumChannel.connect_tx_device
connect_tx_qchl(w, uid, id, rx_uid) ==
    IF w.err # "none" THEN w
    ELSE IF w.chans[id].tx_device # NoUid THEN [w EXCEPT !.err = "ValueError"]
    ELSE [w EXCEPT !.chans[id].tx_device = uid,
                   !.parties[uid].tx_sockets = Put(@, rx_uid, id)]

\* QuantumDevice.connect_rx_qchl with QuantumChannel.connect_rx_device
connect_rx_qchl(w, uid, id, tx_uid) ==
    IF w.err # "none" THEN w
    ELSE IF w.chans[id].rx_device # NoUid THEN [w EXCEPT !.err = "ValueError"]
    ELSE [w EXCEPT
            !.chans[id].rx_device = uid,
            !.chans[id].rx_device_socket_id = tx_uid,
            !.parties[uid].rx_sockets = Put(@, tx_uid, id),
            !.parties[uid].rx_actions = Put(@, tx_uid,
                [measure |-> TRUE, meas_basis |-> "STD",
                 forward |-> FALSE, forward_id |-> NoUid])]

RECURSIVE transmit(_, _, _, _), receive(_, _, _, _)

\* Party.transmit (QuantumDevice.transmit, then QuantumChannel.transmit): the
\* set of worlds that the possible measurement outcomes downstream lead to.
transmit(w, uid, q, rx_uid) ==
    IF rx_uid \notin DOMAIN w.parties[uid].tx_sockets
    THEN {[w EXCEPT !.err = "KeyError"]}
    ELSE LET id == w.parties[uid].tx_sockets[rx_uid]
             w1 == [w EXCEPT !.chans[id].tstep_state = q]
             after == IF w1.chans[id].rx_device = NoUid THEN {w1}
                      ELSE receive(w1, w1.chans[id].rx_device, q,
                                   w1.chans[id].rx_device_socket_id)
         IN {IF r.err = "none"
             THEN [r EXCEPT !.parties[uid].total_qstates_transmitted = @ + 1]
             ELSE r : r \in after}

\* The mutant of count_received: an eavesdropper's receipt is not counted.
count_received_unless_eve(w, uid) ==
    IF w.parties[uid].is_eve THEN w
    ELSE [w EXCEPT !.parties[uid].total_qstates_received = @ + 1]

\* Party.receive, line 340: "self.total_qstates_received += 1".
count_received(w, uid) ==
    [w EXCEPT !.parties[uid].total_qstates_received = @ + 1]

\* The mutant of use_up_basis: the armed basis stays armed.
use_up_basis_keep(tstep_rx_bases, sender_uid) == tstep_rx_bases

\* Party.receive, line 305: "self.tstep_rx_bases[sender_uid] = None".
use_up_basis(tstep_rx_bases, sender_uid) == Put(tstep_rx_bases, sender_uid, None)

\* The mutant of basis_is_none: a used-up basis is not noticed.
basis_is_none_never(basis) == FALSE

\* Party.receive, line 307: "if basis is None".
basis_is_none(basis) == basis = None

\* Party.receive: measure with the armed basis, then forward if the socket
\* is configured to.
receive(w, uid, qstate, tx_uid) ==
    LET p == w.parties[uid]
        t == p.timestep
        sender_uid == p.tstep_tx_uid
        \* the second half of receive, from "if rx_actions[tx_uid][forward]"
        Rest(w2, bit, basis, q) ==
            LET p2 == w2.parties[uid]
            IN IF tx_uid \notin DOMAIN p2.rx_actions
               THEN {[w2 EXCEPT !.err = "KeyError"]}
               ELSE IF p2.rx_actions[tx_uid].forward
               THEN LET forward_id == p2.rx_actions[tx_uid].forward_id
                        w3 == [w2 EXCEPT
                                !.parties[uid].tx_bases =
                                    store_value_in_dict(@, t, forward_id, basis),
                                !.parties[uid].tx_bits =
                                    store_value_in_dict(@, t, forward_id, bit)]
                    IN {IF r.err = "none"
                        THEN count_received(
                                [r EXCEPT
                                  !.parties[uid].total_qstates_forwarded = @ + 1],
                                uid)
                        ELSE r : r \in transmit(w3, uid, q, forward_id)}
               ELSE {count_received(w2, uid)}
    IN IF p.measure_received_qstates
       THEN IF sender_uid \notin DOMAIN p.tstep_rx_bases
            THEN {[w EXCEPT !.err = "KeyError"]}
            ELSE LET basis == p.tstep_rx_bases[sender_uid]
                     w1 == [w EXCEPT
                             !.parties[uid].tstep_rx_bases =
                                 use_up_basis(@, sender_uid)]
                 IN IF basis_is_none(basis)
                    THEN {[w1 EXCEPT !.err = "TypeError"]}
                    ELSE UNION {
                        Rest([w1 EXCEPT
                                !.parties[uid].total_qstates_measured = @ + 1,
                                !.parties[uid].rx_bases =
                                    store_value_in_dict(@, t, sender_uid, basis),
                                !.parties[uid].rx_bits =
                                    store_value_in_dict(@, t, sender_uid, m.bit)],
                             m.bit, basis, m.q)
                        : m \in measure(qstate, basis)}
       ELSE Rest(w, NoBit, None, qstate)

\* Party.send_state: generate basis[bit], record it, transmit it.
send_state(w, uid, bit, basis, rx_uid) ==
    LET t == w.parties[uid].timestep
        w1 == [w EXCEPT
                !.parties[uid].total_qstates_generated = @ + 1,
                !.parties[uid].tx_bases = store_value_in_dict(@, t, rx_uid, basis),
                !.parties[uid].tx_bits = store_value_in_dict(@, t, rx_uid, bit)]
    IN transmit(w1, uid, generate_state(basis, bit), rx_uid)


-----------------------------------------------------------------------------
(* NetworkManager (network_manager.py).  The graph is the set of its       *)
(* edges; nodes, edges and dict entries are visited in increasing order,   *)
(* which is the insertion order of the topologies the protocol classes     *)
(* build (edges (i, i+1) or (0, i), eavesdroppers numbered from max + 1).  *)

Nodes(net) == {e[1] : e \in net} \cup {e[2] : e \in net}

\* NetworkManager.get_successors / get_predecessors (as lists)
get_successors(net, uid) == Sorted({e[2] : e \in {x \in net : x[1] = uid}})

get_predecessors(net, uid) == Sorted({e[1] : e \in {x \in net : x[2] = uid}})

\* The edges of a set in dict order.
RECURSIVE EdgeSeq(_)
EdgeSeq(E) ==
    IF E = {} THEN <<>>
    ELSE LET m == CHOOSE x \in E : \A y \in E :
                     x[1] < y[1] \/ (x[1] = y[1] /\ x[2] <= y[2])
         IN <<m>> \o EdgeSeq(E \ {m})

\* NetworkManager.__init__, the loop that creates one channel per edge and
\* connects its two ends.
RECURSIVE ConnectEdges(_, _)
ConnectEdges(w, es) ==
    IF es = <<>> THEN w
    ELSE LET e == Head(es)
             w1 == [w EXCEPT !.chans = Put(@, e, NewChannel)]
             w2 == connect_tx_qchl(w1, e[1], e, e[2])
             w3 == connect_rx_qchl(w2, e[2], e, e[1])
         IN ConnectEdges(w3, Tail(es))

\* NetworkManager.__init__: parties for the nodes, channels for the edges.
NewNetwork(edges) ==
    ConnectEdges([parties |-> [u \in Nodes(edges) |-> NewParty(u, FALSE)],
                  chans |-> EmptyMap,
                  cchl |-> NewCchl,
                  err |-> "none"],
                 EdgeSeq(edges))

\* The mutant of RewireGraph: the intercepted edge stays in the graph.
RewireGraphKeepEdge(net, edge, eve_uid) ==
    net \cup {<<edge[1], eve_uid>>, <<eve_uid, edge[2]>>}

\* NetworkManager.intercept_edges, the graph edit: remove_edge(tx, rx),
\* add_edge(tx, eve), add_edge(eve, rx).
RewireGraph(net, edge, eve_uid) ==
    (net \ {edge}) \cup {<<edge[1], eve_uid>>, <<eve_uid, edge[2]>>}

\* NetworkManager.intercept_edges, the body of the loop for an edge that is
\* to be intercepted.  g = [w, network, qchls, old_qchls, eve_uid].
InterceptOne(g, edge) ==
    LET tx_uid == edge[1]
        rx_uid == edge[2]
        eve_uid == g.eve_uid
        new_id == <<eve_uid, rx_uid>>
        w0 == g.w
        \* eve = Party(eve_uid, "E", is_eve=True); eve.next_timestep()
        w1 == [w0 EXCEPT !.parties =
                  Put(@, eve_uid, party_next_timestep(NewParty(eve_uid, TRUE)))]
        \* redirect the existing channel to eve
        existing == g.old_qchls[edge]
        w2 == [w1 EXCEPT !.chans[existing] = disconnect_rx_device(@)]
        w3 == connect_rx_qchl(w2, eve_uid, existing, tx_uid)
        w4 == [w3 EXCEPT
                !.parties[eve_uid] =
                    update_rx_action(update_rx_action(@, tx_uid, "forward", TRUE),
                                     tx_uid, "forward_id", rx_uid),
                !.chans[existing].intercepted = TRUE]
        \* a new channel from eve to the rx party
        w5 == [w4 EXCEPT !.chans = Put(@, new_id, chan_next_timestep(NewChannel))]
        w6 == connect_tx_qchl(w5, eve_uid, new_id, rx_uid)
        w7 == connect_rx_qchl(w6, rx_uid, new_id, tx_uid)
    IN [g EXCEPT
          !.w = w7,
          !.qchls = Put(Put(@, <<tx_uid, eve_uid>>, existing),
                        <<eve_uid, rx_uid>>, new_id),
          !.network = RewireGraph(@, edge, eve_uid),
          !.eve_uid = @ + 1]

RECURSIVE InterceptLoop(_, _, _)
InterceptLoop(g, es, intercepted_edges) ==
    IF es = <<>> THEN g
    ELSE LET edge == Head(es)
             g1 == IF edge \in intercepted_edges
                   THEN InterceptOne(g, edge)
                   ELSE [g EXCEPT !.qchls = Put(@, edge, g.old_qchls[edge])]
         IN InterceptLoop(g1, Tail(es), intercepted_edges)

\* NetworkManager.intercept_edges: the new [w, network, qchls].
intercept_edges(w, net, q, intercepted_edges) ==
    LET uids == DOMAIN w.parties
        top == CHOOSE x \in uids : \A y \in uids : y <= x
    IN InterceptLoop([w |-> w, network |-> net, qchls |-> EmptyMap,
                      old_qchls |-> q, eve_uid |-> top + 1],
                     EdgeSeq(DOMAIN q), intercepted_edges)

\* NetworkManager.next_timestep on the parties and the channels in qchls.
nm_next_timestep(w, q) ==
    LET ids == {q[e] : e \in DOMAIN q}
    IN [w EXCEPT
          !.parties = [u \in DOMAIN @ |-> party_next_timestep(@[u])],
          !.chans = [i \in DOMAIN @ |->
                        IF i \in ids THEN chan_next_timestep(@[i]) ELSE @[i]]]

\* NetworkManager.store_timestep_data
nm_store_timestep_data(w, q) ==
    LET ids == {q[e] : e \in DOMAIN q}
    IN [w EXCEPT
          !.parties = [u \in DOMAIN @ |-> party_store_timestep_data(@[u])],
          !.chans = [i \in DOMAIN @ |->
                        IF i \in ids THEN chan_store_timestep_data(@[i]) ELSE @[i]]]


-----------------------------------------------------------------------------
(* QKDProtocol (qkd_protocols.py): security arithmetic.                    *)
(* A security level is a multiple of 1/SecDen: update_security halves the  *)
(* interval [0, 1] until it is no wider than 0.0001, which takes 14        *)
(* halvings, so every value it handles is k/2^14 exactly.                  *)

SecDen == 16384

RECURSIVE Pow(_, _)
Pow(b, n) == IF n = 0 THEN 1 ELSE b * Pow(b, n - 1)

\* (3/4)^n <= r/SecDen, in integers (SecDen = 4^7).
PowLeq(n, r) ==
    IF n <= 7 THEN Pow(3, n) * Pow(4, 7 - n) <= r
    ELSE Pow(3, n) <= r * Pow(4, n - 7)

\* The n for which log(0.75^n) / log(0.75) evaluates in floating point to
\* just above n, so that ceil gives n + 1 (n = 3: 3.0000000000000004,
\* n = 6: 6.000000000000001); 0.75^n is a multiple of 1/SecDen for n <= 7.
FloatSlip(n) == n \in {3, 6}

RECURSIVE LeastReq(_, _)
LeastReq(n, r) ==
    IF n > ReqCap THEN n
    ELSE IF PowLeq(n, r)
         THEN IF n <= 7 /\ Pow(3, n) * Pow(4, 7 - n) = r /\ FloatSlip(n)
              THEN n + 1 ELSE n
         ELSE LeastReq(n + 1, r)

\* QKDProtocol.required_num_check_bits for security = k/SecDen:
\* ceil(log(1 - security) / log(0.75)).
required_num_check_bits(k) == LeastReq(0, SecDen - k)

\* The lengths that get_shortest_* takes the minimum of for one party: one
\* per uid of reorder_by_uid(ledger).
LedgerLengths(ledger) ==
    LET by_uid == reorder_by_uid(ledger)
    IN {Cardinality(DOMAIN by_uid[u]) : u \in DOMAIN by_uid}

SetMin(S) == IF S = {} THEN Inf ELSE CHOOSE x \in S : \A y \in S : x <= y

\* QKDProtocol.get_shortest_key_length: 0 as soon as a party with an empty
\* secret_keys is met, else the least length over all parties and uids.
get_shortest_key_length(ps) ==
    IF \E u \in DOMAIN ps : DOMAIN ps[u].secret_keys = {} THEN 0
    ELSE SetMin(UNION {LedgerLengths(ps[u].secret_keys) : u \in DOMAIN ps})

SetMax(S) == IF S = {} THEN 0 ELSE CHOOSE x \in S : \A y \in S : y <= x

\* The mutant of get_shortest_check_bits: the longest record is taken.
get_longest_check_bits(ps) ==
    SetMax(UNION {LedgerLengths(ps[u].check_bits) : u \in DOMAIN ps})

\* QKDProtocol.get_shortest_check_bits
get_shortest_check_bits(ps) ==
    IF \E u \in DOMAIN ps : DOMAIN ps[u].check_bits = {} THEN 0
    ELSE SetMin(UNION {LedgerLengths(ps[u].check_bits) : u \in DOMAIN ps})

\* QKDProtocol.update_security, the bisection: security and upper_bound as
\* multiples of 1/SecDen; the loop runs while they differ by more than 0.0001,
\* that is by more than one unit.
RECURSIVE Bisect(_, _, _)
Bisect(security, upper_bound, num_check_bits) ==
    IF upper_bound - security <= 1 THEN security
    ELSE LET candidate == security + (upper_bound - security) \div 2
         IN IF required_num_check_bits(candidate) > num_check_bits
            THEN Bisect(security, candidate, num_check_bits)
            ELSE Bisect(candidate, upper_bound, num_check_bits)

update_security(ps) == Bisect(0, SecDen, get_shortest_check_bits(ps))


-----------------------------------------------------------------------------
(* QKDProtocol: construction, timestep bookkeeping.                        *)

World == [parties |-> parties, chans |-> chans, cchl |-> cchl, err |-> "none"]

\* The protocol's own stored_data entry.
ProtoEntry(pr) == [security |-> pr.security, key_length |-> pr.key_length]

\* QKDProtocol.next_timestep on the protocol object.
proto_next_timestep(pr) ==
    [pr EXCEPT !.stored_data = Put(@, pr.num_iterations, ProtoEntry(pr)),
               !.timestep = @ + 1]

\* QKDProtocol.store_timestep_data on the protocol object.
proto_store_timestep_data(pr) ==
    [pr EXCEPT !.stored_data = Put(@, pr.num_iterations, ProtoEntry(pr))]

\* QKDProtocol.__init__ and reset, before next_timestep: the protocol object.
NewProto(variant) ==
    [variant |-> variant,
     timestep |-> 0,
     num_iterations |-> 0,
     num_generated_states |-> 0,
     security |-> 0,
     key_length |-> 0,
     stored_data |-> EmptyMap,
     protocol_secure |-> TRUE,
     eavesdropping |-> FALSE,
     intercepted_edges |-> {}]

\* QKDProtocol.__init__ -> setup_network_manager -> reset (-> next_timestep),
\* then add_eavesdropping when edges are to be intercepted.  The result is
\* the whole object graph: [w, network, qchls, nm, proto].
Construct(variant, edges, intercepted_edges) ==
    LET w0 == NewNetwork(edges)
        q0 == [e \in edges |-> e]
        \* reset(): everything is at timestep 0; next_timestep()
        w1 == nm_next_timestep([w0 EXCEPT !.cchl = cchl_next_timestep(@)], q0)
        pr1 == proto_next_timestep(NewProto(variant))
        g == intercept_edges(w1, edges, q0, intercepted_edges)
    IN IF intercepted_edges = {}
       THEN [w |-> w1, network |-> edges, qchls |-> q0,
             nm |-> [timestep |-> 1, intercepted_edges |-> {}],
             proto |-> pr1]
       ELSE [w |-> g.w, network |-> g.network, qchls |-> g.qchls,
             nm |-> [timestep |-> 1, intercepted_edges |-> intercepted_edges],
             proto |-> [pr1 EXCEPT !.eavesdropping = TRUE,
                                   !.intercepted_edges = intercepted_edges]]

-----------------------------------------------------------------------------
(* BB84.protocol: one iteration of 2-party BB84.                           *)

\* The mutant of BasesMatch: the bases are taken to agree in every round.
BasesMatchAlways(rx_basis, tx_basis) == TRUE

\* np.allclose(rx_basis, tx_basis) on two bases.
BasesMatch(rx_basis, tx_basis) == rx_basis = tx_basis

\* The mutant of BB84Abort: a detected mismatch does not end the iteration.
BB84AbortNever(alice, bob) == FALSE

\* "if alice.compromised_chls or bob.compromised_chls"
BB84Abort(alice, bob) ==
    alice.compromised_chls # <<>> \/ bob.compromised_chls # <<>>

\* BB84.protocol after alice.send_state has returned in world w: the
\* broadcasts, the basis test, sifting, check bits.  The result is
\* [w, secure]: the world and the value protocol() returns.
BB84AfterSend(w, timestep, eavesdropping, use_check) ==
    LET A == 0
        B == 1
        E == 2
        c1 == broadcast_rx_bases(w.cchl, w.parties[B], timestep)
        c2 == broadcast_tx_bases(c1, w.parties[A], timestep)
        tx_bases == get_tx_bases(c2, timestep)
        rx_bases == get_rx_bases(c2, timestep)
        found == /\ B \in DOMAIN rx_bases /\ A \in DOMAIN rx_bases[B]
                 /\ A \in DOMAIN tx_bases /\ B \in DOMAIN tx_bases[A]
        w1 == [w EXCEPT !.cchl = c2]
        \* sifting
        w2 == [w1 EXCEPT
                !.parties = [u \in DOMAIN @ |->
                    IF u \in {A, B} \/ (eavesdropping /\ u = E)
                    THEN add_all_bits_to_keys(@[u]) ELSE @[u]]]
        \* check bits
        w3 == [w2 EXCEPT
                !.parties = [u \in DOMAIN @ |->
                    IF u = A THEN add_check_bit(@[u], B)
                    ELSE IF u = B THEN add_check_bit(@[u], A)
                    ELSE IF eavesdropping /\ u = E
                    THEN add_check_bit(add_check_bit(@[u], A), B)
                    ELSE @[u]]]
        c3 == broadcast_check_bits(w3.cchl, w3.parties[A])
        bob1 == receive_check_bits(c3, w3.parties[B], A)
        c4 == broadcast_check_bits(c3, bob1)
        alice1 == receive_check_bits(c4, w3.parties[A], B)
        w4 == [w3 EXCEPT !.cchl = c4, !.parties[A] = alice1, !.parties[B] = bob1]
        \* "Remove all check bits from the secret keys."
        Removal(x) ==
            [x EXCEPT
                !.parties = [u \in DOMAIN @ |->
                    IF u \in {A, B} \/ (eavesdropping /\ u = E)
                    THEN remove_check_bits_from_secret_keys(
                             synch_sifted_and_secret_keys(@[u]))
                    ELSE @[u]]]
    IN IF ~found THEN [w |-> [w1 EXCEPT !.err = "KeyError"], secure |-> TRUE]
       ELSE IF BasesMatch(rx_bases[B][A], tx_bases[A][B])
       THEN IF use_check
            THEN IF BB84Abort(w4.parties[A], w4.parties[B])
                 THEN [w |-> w4, secure |-> FALSE]
                 ELSE [w |-> Removal(w4), secure |-> TRUE]
            ELSE [w |-> Removal(w2), secure |-> TRUE]
       ELSE [w |-> Removal(w1), secure |-> TRUE]

\* BB84.protocol: the set of results [w, secure] for the random choices c =
\* [bob_basis, eve_basis, bit, alice_basis, use_check] (use_check stands for
\* random.random() < check_bit_prob).
BB84Protocol(w, timestep, eavesdropping, c) ==
    LET A == 0
        B == 1
        E == 2
        w1 == [w EXCEPT !.parties[B] = set_basis(@, A, c.bob_basis)]
        w2 == IF eavesdropping
              THEN [w1 EXCEPT !.parties[E] = set_basis(@, A, c.eve_basis)]
              ELSE w1
    IN {IF r.err # "none" THEN [w |-> r, secure |-> TRUE]
        ELSE BB84AfterSend(r, timestep, eavesdropping, c.use_check)
        : r \in send_state(w2, A, c.bit, c.alice_basis, B)}

BB84Choices(eavesdropping) ==
    [bob_basis : Bases,
     eve_basis : IF eavesdropping THEN Bases ELSE {"STD"},
     bit : Bits,
     alice_basis : Bases,
     use_check : BOOLEAN]

-----------------------------------------------------------------------------
(* Key reconciliation (components.py, class PartyTODODelete): the flip-bit *)
(* instructions and the truncation to the shortest key.  The class keeps   *)
(* its ledgers exactly as Party does, so a party record serves for both.   *)

\* The bits of a key {timestep: bit} in timestep order.
BitsInOrder(key) == [i \in 1..Cardinality(DOMAIN key) |-> key[Sorted(DOMAIN key)[i]]]

\* generate_flip_bit_instructions: for every coordinate of secret_keys,
\* whether the bit differs from the bit at the same position (counts[uid])
\* of the key held for comparison_uid.
generate_flip_bit_instructions(p, comparison_uid) ==
    LET sks_by_uid == reorder_by_uid(p.secret_keys)
        comparison_sk == IF comparison_uid \in DOMAIN sks_by_uid
                         THEN sks_by_uid[comparison_uid] ELSE EmptyMap
        comparison_sk_timesteps == Sorted(DOMAIN comparison_sk)
        counts(timestep, uid) ==
            Cardinality({t \in DOMAIN sks_by_uid[uid] : t < timestep})
    IN [timestep \in DOMAIN p.secret_keys |->
          [uid \in DOMAIN p.secret_keys[timestep] |->
              /\ counts(timestep, uid) < Len(comparison_sk_timesteps)
              /\ p.secret_keys[timestep][uid] #
                   comparison_sk[comparison_sk_timesteps[counts(timestep, uid) + 1]]]]

\* Whether flip_bits_of_secret_keys raises KeyError: an instruction to flip
\* names a timestep that secret_keys does not hold.
FlipKeyError(p, flip_bit_instrs, sender_uid) ==
    \E timestep \in DOMAIN flip_bit_instrs :
        IF sender_uid = p.uid
        THEN \E uid \in DOMAIN flip_bit_instrs[timestep] :
                /\ flip_bit_instrs[timestep][uid]
                /\ \/ timestep \notin DOMAIN p.secret_keys
                   \/ uid \notin DOMAIN p.secret_keys[timestep]
        ELSE /\ p.uid \in DOMAIN flip_bit_instrs[timestep]
             /\ flip_bit_instrs[timestep][p.uid]
             /\ timestep \notin DOMAIN p.secret_keys

\* The mutant of flip_bits_of_secret_keys: an instructed bit is set, not
\* flipped.
flip_bits_of_secret_keys_set(p, flip_bit_instrs, sender_uid) ==
    LET Flip(timestep, uid) ==
            /\ timestep \in DOMAIN flip_bit_instrs
            /\ IF sender_uid = p.uid
               THEN /\ uid \in DOMAIN flip_bit_instrs[timestep]
                    /\ flip_bit_instrs[timestep][uid]
               ELSE /\ uid = sender_uid
                    /\ p.uid \in DOMAIN flip_bit_instrs[timestep]
                    /\ flip_bit_instrs[timestep][p.uid]
    IN [p EXCEPT !.secret_keys =
          [timestep \in DOMAIN @ |->
              [uid \in DOMAIN @[timestep] |->
                  IF Flip(timestep, uid) THEN 1 ELSE @[timestep][uid]]]]

\* flip_bits_of_secret_keys: the sender applies every instruction, another
\* party the instructions addressed to it, to the key it holds for the sender.
flip_bits_of_secret_keys(p, flip_bit_instrs, sender_uid) ==
    LET Flip(timestep, uid) ==
            /\ timestep \in DOMAIN flip_bit_instrs
            /\ IF sender_uid = p.uid
               THEN /\ uid \in DOMAIN flip_bit_instrs[timestep]
                    /\ flip_bit_instrs[timestep][uid]
               ELSE /\ uid = sender_uid
                    /\ p.uid \in DOMAIN flip_bit_instrs[timestep]
                    /\ flip_bit_instrs[timestep][p.uid]
    IN [p EXCEPT !.secret_keys =
          [timestep \in DOMAIN @ |->
              [uid \in DOMAIN @[timestep] |->
                  IF Flip(timestep, uid) THEN 1 - @[timestep][uid]
                  ELSE @[timestep][uid]]]]

\* broadcast_flip_bit_instructions: [p, c] after the party has flipped its
\* own keys and posted the instructions.
broadcast_flip_bit_instructions(c, p, comparison_uid) ==
    LET flip_bit_instrs == generate_flip_bit_instructions(p, comparison_uid)
    IN [p |-> flip_bits_of_secret_keys(p, flip_bit_instrs, p.uid),
        c |-> add_message(c, p.uid,
                [timestep |-> p.timestep,
                 type |-> "broadcast_flip_bit_instructions",
                 data |-> flip_bit_instrs])]

\* receive_flip_bit_instructions
receive_flip_bit_instructions(c, p, sender_uid) ==
    flip_bits_of_secret_keys(
        p, get_flip_bit_instructions(c, p.timestep, sender_uid), sender_uid)

\* The mutant of get_minimum_key_length: a successor without a key is not
\* taken as length 0.
get_minimum_key_length_held(p, net) ==
    LET by_uid == reorder_by_uid(p.secret_keys)
        lengths == {Cardinality(DOMAIN by_uid[uid]) : uid \in DOMAIN by_uid}
    IN IF lengths = {} THEN Inf
       ELSE CHOOSE m \in lengths : \A n \in lengths : m <= n

\* get_minimum_key_length: 0 when a successor has no key, otherwise the
\* length of the shortest key (math.inf when there is no key at all).
get_minimum_key_length(p, net) ==
    LET secret_keys_by_uid == reorder_by_uid(p.secret_keys)
        successors == get_successors(net, p.uid)
        lengths == {Cardinality(DOMAIN secret_keys_by_uid[uid]) :
                        uid \in DOMAIN secret_keys_by_uid}
    IN IF \E i \in DOMAIN successors : successors[i] \notin DOMAIN secret_keys_by_uid
       THEN 0
       ELSE IF lengths = {} THEN Inf
       ELSE CHOOSE m \in lengths : \A n \in lengths : m <= n

\* The mutant of truncate_secret_keys: the latest timesteps are kept.
truncate_secret_keys_latest(p, key_length, sender_uid) ==
    LET all == reorder_by_uid(p.secret_keys)
        by_uid == IF sender_uid # NoUid THEN [u \in {sender_uid} |-> all[u]] ELSE all
        Included(uid, timestep) ==
            Cardinality({t \in DOMAIN by_uid[uid] : t > timestep}) < key_length
        popped == [timestep \in DOMAIN p.secret_keys |->
                     [uid \in {u \in DOMAIN p.secret_keys[timestep] :
                                 u \in DOMAIN by_uid => Included(u, timestep)} |->
                         p.secret_keys[timestep][uid]]]
        kept == {timestep \in DOMAIN popped : DOMAIN popped[timestep] # {}}
    IN [p EXCEPT !.secret_keys = [timestep \in kept |-> popped[timestep]]]

\* truncate_secret_keys(key_length, sender_uid): keep the key_length earliest
\* timesteps of every key (of the key for sender_uid only, when one is given;
\* NoUid stands for None), then drop the timesteps left empty.
truncate_secret_keys(p, key_length, sender_uid) ==
    LET all == reorder_by_uid(p.secret_keys)
        secret_keys_by_uid ==
            IF sender_uid # NoUid THEN [u \in {sender_uid} |-> all[u]] ELSE all
        Included(uid, timestep) ==
            Cardinality({t \in DOMAIN secret_keys_by_uid[uid] : t < timestep})
                < key_length
        popped == [timestep \in DOMAIN p.secret_keys |->
                     [uid \in {u \in DOMAIN p.secret_keys[timestep] :
                                 u \in DOMAIN secret_keys_by_uid
                                    => Included(u, timestep)} |->
                         p.secret_keys[timestep][uid]]]
        kept == {timestep \in DOMAIN popped : DOMAIN popped[timestep] # {}}
    IN [p EXCEPT !.secret_keys = [timestep \in kept |-> popped[timestep]]]

\* broadcast_key_length: [p, c] after the party has truncated its own keys
\* and posted the length.
broadcast_key_length(c, p, net) ==
    LET key_length == get_minimum_key_length(p, net)
    IN [p |-> truncate_secret_keys(p, key_length, NoUid),
        c |-> add_message(c, p.uid,
                [timestep |-> p.timestep,
                 type |-> "broadcast_key_length",
                 data |-> key_length])]

\* receive_msg_key_length
receive_msg_key_length(c, p, sender_uid) ==
    IF sender_uid \in DOMAIN reorder_by_uid(p.secret_keys)
    THEN truncate_secret_keys(
             p, get_msg_key_length(c, p.timestep, sender_uid), sender_uid)
    ELSE p

-----------------------------------------------------------------------------
(* Repeated2PartyQKD.protocol: the leader and the reconciliation that ends *)
(* every iteration.                                                        *)

\* "Find the uid of the protocol leader": the last party, in dict order,
\* whose successors contain every other party; NoUid when there is none.
LeaderUid(w, net) ==
    LET S == {uid \in DOMAIN w.parties :
                \A other_uid \in DOMAIN w.parties \ {uid} :
                    <<uid, other_uid>> \in net}
    IN IF S = {} THEN NoUid ELSE CHOOSE u \in S : \A v \in S : v <= u

\* The end of an iteration that did not abort: every party removes its check
\* bits, the leader posts the flip-bit instructions against its first
\* successor and the successors apply them, the leader posts the shortest key
\* length and the successors truncate to it.
StarReconcile(w, net, leader_uid) ==
    LET successors == get_successors(net, leader_uid)
        w1 == [w EXCEPT !.parties =
                 [uid \in DOMAIN @ |-> remove_check_bits_from_secret_keys(@[uid])]]
        f == broadcast_flip_bit_instructions(w1.cchl, w1.parties[leader_uid],
                                             successors[1])
        instrs == get_flip_bit_instructions(f.c, f.p.timestep, leader_uid)
        InSuccessors(uid) == \E i \in DOMAIN successors : successors[i] = uid
        w2 == [w1 EXCEPT !.cchl = f.c,
                         !.parties = [uid \in DOMAIN @ |->
                             IF uid = leader_uid THEN f.p
                             ELSE IF InSuccessors(uid)
                             THEN receive_flip_bit_instructions(f.c, @[uid], leader_uid)
                             ELSE @[uid]]]
        k == broadcast_key_length(w2.cchl, w2.parties[leader_uid], net)
        w3 == [w2 EXCEPT !.cchl = k.c,
                         !.parties = [uid \in DOMAIN @ |->
                             IF uid = leader_uid THEN k.p
                             ELSE IF InSuccessors(uid)
                             THEN receive_msg_key_length(k.c, @[uid], leader_uid)
                             ELSE @[uid]]]
    IN IF successors = <<>> THEN [w EXCEPT !.err = "IndexError"]
       ELSE IF \E i \in DOMAIN successors :
                  FlipKeyError(w1.parties[successors[i]], instrs, leader_uid)
       THEN [w2 EXCEPT !.err = "KeyError"]
       ELSE w3

-----------------------------------------------------------------------------
(* ChainedBB84.protocol: one iteration of BB84 along a chain.              *)

\* The parties in dict order.
PartySeq(w) == Sorted(DOMAIN w.parties)

\* "Find the uid of the first party in the chain": the first party, in dict
\* order, without a predecessor; NoUid when there is none.
FirstPartyUid(w, net) ==
    LET S == {u \in DOMAIN w.parties : get_predecessors(net, u) = <<>>}
    IN IF S = {} THEN NoUid ELSE CHOOSE u \in S : \A v \in S : u <= v

\* The loop that arms every party but the first: set_basis against the
\* predecessor, and forward to the successor when there is one
\* (update_rx_action raises KeyError for a socket the party does not have).
RECURSIVE ChainArm(_, _, _, _, _)
ChainArm(w, net, first, rx_basis, uids) ==
    IF uids = <<>> \/ w.err # "none" THEN w
    ELSE LET uid == Head(uids)
             preds == get_predecessors(net, uid)
             succs == get_successors(net, uid)
             p1 == set_basis(w.parties[uid], preds[1], rx_basis[uid])
             p2 == IF succs # <<>> THEN forward(p1, preds[1], succs[1]) ELSE p1
             w1 == IF uid = first THEN w
                   ELSE IF preds = <<>> THEN [w EXCEPT !.err = "IndexError"]
                   ELSE IF succs # <<>> /\ preds[1] \notin DOMAIN p1.rx_actions
                   THEN [w EXCEPT !.parties[uid] = p1, !.err = "KeyError"]
                   ELSE [w EXCEPT !.parties[uid] = p2]
         IN ChainArm(w1, net, first, rx_basis, Tail(uids))

\* "Add the current bit to the check bits": against the predecessor and the
\* successor of every party.
ChainAddCheckBits(w, net) ==
    [w EXCEPT !.parties = [uid \in DOMAIN @ |->
        LET preds == get_predecessors(net, uid)
            succs == get_successors(net, uid)
            p1 == IF preds # <<>> THEN add_check_bit(@[uid], preds[1]) ELSE @[uid]
        IN IF succs # <<>> THEN add_check_bit(p1, succs[1]) ELSE p1]]

\* The mutant of ChainAbort: a detected mismatch does not end the iteration.
ChainAbortNever(p) == FALSE

\* "if parties[uid].compromised_chls"
ChainAbort(p) == p.compromised_chls # <<>>

\* The loop in which every party broadcasts its check bits, compares them
\* with its predecessor's, and the iteration aborts on the first party that
\* has a compromised channel.  The result is [w, secure].
RECURSIVE ChainCompare(_, _, _)
ChainCompare(w, net, uids) ==
    IF uids = <<>> THEN [w |-> w, secure |-> TRUE]
    ELSE LET uid == Head(uids)
             c1 == broadcast_check_bits(w.cchl, w.parties[uid])
             preds == get_predecessors(net, uid)
             w1 == [w EXCEPT !.cchl = c1]
             w2 == IF preds = <<>> THEN w1
                   ELSE LET own == receive_check_bits(c1, w1.parties[uid], preds[1])
                            w1a == [w1 EXCEPT !.parties[uid] = own]
                        IN [w1a EXCEPT !.parties[preds[1]] =
                               receive_check_bits(c1, @, uid)]
         IN IF ChainAbort(w2.parties[uid]) THEN [w |-> w2, secure |-> FALSE]
            ELSE ChainCompare(w2, net, Tail(uids))

\* The mutant of ChainBasesMatch: the bases are taken to agree in every round.
ChainBasesMatchAlways(rx_bases, first_party_tx_basis, successor_uid) == TRUE

\* The mutant of ChainBasesMatch: only the first receiver's basis is compared.
ChainBasesMatchFirstOnly(rx_bases, first_party_tx_basis, successor_uid) ==
    \A rx_uid \in DOMAIN rx_bases \cap {successor_uid} :
        \A tx_uid \in DOMAIN rx_bases[rx_uid] :
            rx_bases[rx_uid][tx_uid] = first_party_tx_basis

\* "Check whether all bases match": every announced measurement basis equals
\* the first party's transmission basis.
ChainBasesMatch(rx_bases, first_party_tx_basis, successor_uid) ==
    \A rx_uid \in DOMAIN rx_bases : \A tx_uid \in DOMAIN rx_bases[rx_uid] :
        rx_bases[rx_uid][tx_uid] = first_party_tx_basis

\* ChainedBB84.protocol after first_party.send_state has returned in world w.
ChainAfterSend(w, net, timestep, first, successor_uid, use_check) ==
    LET uids == PartySeq(w)
        \* the announcements
        RECURSIVE Announce(_, _)
        Announce(c, us) ==
            IF us = <<>> THEN c
            ELSE Announce(IF Head(us) = first THEN c
                          ELSE broadcast_rx_bases(c, w.parties[Head(us)], timestep),
                          Tail(us))
        c2 == Announce(broadcast_tx_bases(w.cchl, w.parties[first], timestep), uids)
        tx_bases == get_tx_bases(c2, timestep)
        rx_bases == get_rx_bases(c2, timestep)
        found == first \in DOMAIN tx_bases /\ successor_uid \in DOMAIN tx_bases[first]
        bases_match ==
            ChainBasesMatch(rx_bases, tx_bases[first][successor_uid], successor_uid)
        w1 == [w EXCEPT !.cchl = c2]
        w2 == [w1 EXCEPT !.parties = [u \in DOMAIN @ |-> add_all_bits_to_keys(@[u])]]
        r == ChainCompare(ChainAddCheckBits(w2, net), net, uids)
        Removal(x) ==
            [x EXCEPT !.parties = [u \in DOMAIN @ |->
                remove_check_bits_from_secret_keys(
                    synch_sifted_and_secret_keys(@[u]))]]
    IN IF ~found THEN [w |-> [w1 EXCEPT !.err = "KeyError"], secure |-> TRUE]
       ELSE IF bases_match
       THEN IF use_check
            THEN IF r.secure THEN [w |-> Removal(r.w), secure |-> TRUE] ELSE r
            ELSE [w |-> Removal(w2), secure |-> TRUE]
       ELSE [w |-> Removal(w1), secure |-> TRUE]

\* ChainedBB84.protocol: the set of results [w, secure] for the random
\* choices c = [rx_basis (one per party), bit, basis, use_check].
ChainProtocol(w, net, timestep, c) ==
    LET first == FirstPartyUid(w, net)
        w1 == ChainArm(w, net, first, c.rx_basis, PartySeq(w))
        succs == get_successors(net, first)
    IN IF first = NoUid THEN {[w |-> [w EXCEPT !.err = "Exception"], secure |-> TRUE]}
       ELSE IF w1.err # "none" THEN {[w |-> w1, secure |-> TRUE]}
       ELSE IF succs = <<>>
       THEN {[w |-> [w1 EXCEPT !.err = "Exception"], secure |-> TRUE]}
       ELSE {IF r.err # "none" THEN [w |-> r, secure |-> TRUE]
             ELSE ChainAfterSend(r, net, timestep, first, succs[1], c.use_check)
             : r \in send_state(w1, first, c.bit, c.basis, succs[1])}

ChainChoices(w) ==
    [rx_basis : [DOMAIN w.parties -> Bases],
     bit : Bits,
     basis : Bases,
     use_check : BOOLEAN]

-----------------------------------------------------------------------------
(* QKDProtocol.run_one_step.                                               *)

\* An object graph o = [w, nm, proto]: the world, the network manager's
\* scalars and the protocol object.  network and qchls never change after
\* construction.

\* QKDProtocol.next_timestep on the object graph.
next_timestep(o, q) ==
    [w |-> nm_next_timestep([o.w EXCEPT !.cchl = cchl_next_timestep(@)], q),
     nm |-> [o.nm EXCEPT !.timestep = @ + 1],
     proto |-> proto_next_timestep(o.proto)]

\* QKDProtocol.store_timestep_data on the object graph.
store_timestep_data(o, q) ==
    [w |-> nm_store_timestep_data(
               [o.w EXCEPT !.cchl = cchl_store_timestep_data(@)], q),
     nm |-> o.nm,
     proto |-> proto_store_timestep_data(o.proto)]

\* The mutant of StepSecure: an iteration runs whatever the flag says.
StepSecureAlways(pr) == TRUE

\* "if self.protocol_secure" at the head of run_one_step and run_n_steps.
StepSecure(pr) == pr.protocol_secure

\* The mutant of AfterProtocol: the timestep advances after every iteration.
AfterProtocolAdvance(o, q) == next_timestep(o, q)

\* run_one_step, "Setup for the next timestep": next_timestep after a secure
\* iteration, store_timestep_data after an aborted one.
AfterProtocol(o, q) ==
    IF o.proto.protocol_secure THEN next_timestep(o, q)
    ELSE store_timestep_data(o, q)

\* The mutant of AfterIteration: an aborting iteration is not counted.
AfterIterationSecureOnly(o, q, r) ==
    IF r.w.err # "none" THEN [o EXCEPT !.w = r.w]
    ELSE LET o1 == [o EXCEPT !.w = r.w, !.proto.protocol_secure = r.secure]
             o2 == AfterProtocol(o1, q)
         IN [o2 EXCEPT
               !.proto.security = update_security(o2.w.parties),
               !.proto.key_length = get_shortest_key_length(o2.w.parties),
               !.proto.num_iterations = IF r.secure THEN @ + 1 ELSE @]

\* run_one_step from the return of self.protocol(), which gave r = [w, secure].
\* An exception inside protocol() leaves run_one_step at once.
AfterIteration(o, q, r) ==
    IF r.w.err # "none" THEN [o EXCEPT !.w = r.w]
    ELSE LET o1 == [o EXCEPT !.w = r.w, !.proto.protocol_secure = r.secure]
             o2 == AfterProtocol(o1, q)
         IN [o2 EXCEPT
               !.proto.security = update_security(o2.w.parties),
               !.proto.key_length = get_shortest_key_length(o2.w.parties),
               !.proto.num_iterations = @ + 1]

\* Repeated2PartyQKD.protocol up to its first call on a party: the search
\* for the leader raises Exception when there is none; with a leader, the
\* first receiving party is asked for next_qubit_is_from, which Party does
\* not define.
StarProtocol(w, net) ==
    IF LeaderUid(w, net) = NoUid
    THEN {[w |-> [w EXCEPT !.err = "Exception"], secure |-> TRUE]}
    ELSE {[w |-> [w EXCEPT !.err = "AttributeError"], secure |-> TRUE]}

\* self.protocol() of the variant: the set of results [w, secure] over the
\* random choices and the measurement outcomes.
Protocol(w, pr, net) ==
    IF pr.variant = "ChainedBB84"
    THEN UNION {ChainProtocol(w, net, pr.timestep, c) : c \in ChainChoices(w)}
    ELSE IF pr.variant = "Repeated2PartyQKD"
    THEN StarProtocol(w, net)
    ELSE UNION {BB84Protocol(w, pr.timestep, pr.eavesdropping, c)
                : c \in BB84Choices(pr.eavesdropping)}

\* QKDProtocol.run_one_step: the set of object graphs it can return with.
run_one_step(o, net, q) ==
    IF StepSecure(o.proto)
    THEN {AfterIteration(o, q, r) : r \in Protocol(o.w, o.proto, net)}
    ELSE {o}

-----------------------------------------------------------------------------
(* The state machine.                                                      *)

Graph == [w |-> World, nm |-> nm, proto |-> proto]

\* The caller is outside every call; `last` is the call that returned last
\* and `entered` whether protocol_secure was true when that call was made.
Idle(last) == [pc |-> "idle", last |-> last, entered |-> TRUE, n |-> 0,
               count |-> 0, start |-> 0, key_length |-> 0, required |-> 0]

\* The caller's record at a call of `op`.
Called(op) == [Idle(op) EXCEPT !.entered = proto.protocol_secure]

\* The variables after a call (or a loop body) that returned with o.
Returns(o) ==
    /\ parties' = o.w.parties
    /\ chans' = o.w.chans
    /\ cchl' = o.w.cchl
    /\ error' = o.w.err
    /\ nm' = o.nm
    /\ proto' = o.proto
    /\ UNCHANGED <<network, qchls>>

\* The state after construction of the protocol object.
Constructed(variant, edges, intercepted_edges) ==
    LET g == Construct(variant, edges, intercepted_edges)
    IN /\ parties = g.w.parties
       /\ chans = g.w.chans
       /\ cchl = g.w.cchl
       /\ error = g.w.err
       /\ network = g.network
       /\ qchls = g.qchls
       /\ nm = g.nm
       /\ proto = g.proto
       /\ caller = Idle("init")

\* BB84(eavesdropping=...)
InitBB84 ==
    \E eavesdropping \in BOOLEAN :
        Constructed("BB84", {<<0, 1>>},
                    IF eavesdropping THEN {<<0, 1>>} ELSE {})

\* Iterations left before the bound of the model: an intercepted network
\* gets one iteration fewer.
IterBound == IF proto.eavesdropping THEN MaxIter - 1 ELSE MaxIter

\* A call of run_one_step().
RunOneStep ==
    /\ caller.pc = "idle"
    /\ error = "none"
    /\ proto.protocol_secure => proto.num_iterations < IterBound
    /\ \E o \in run_one_step(Graph, network, qchls) : Returns(o)
    /\ caller' = Called("run_one_step")

NextBB84 == RunOneStep

SpecBB84 == InitBB84 /\ [][NextBB84]_vars

-----------------------------------------------------------------------------
(* run_n_steps and run: the caller's position inside the loops.            *)

\* The security levels handed to run(), in units of 1/SecDen: 0 and 0.25.
SecurityInputs == {0, SecDen \div 4}

\* The mutant of RunNStepsContinue: the loop runs once more than asked.
RunNStepsContinueOnceMore(pr, c) == pr.protocol_secure /\ c.count <= c.n

\* "while self.protocol_secure and count < n"
RunNStepsContinue(pr, c) == pr.protocol_secure /\ c.count < c.n

\* The mutant of RunContinue: the loop only ends when the protocol aborts.
RunContinueUntilAbort(pr, ps, c) == pr.protocol_secure

\* The mutant of RunContinue: the loop ends when either requirement is met.
RunContinueBoth(pr, ps, c) ==
    /\ pr.protocol_secure
    /\ get_shortest_key_length(ps) < c.key_length
    /\ get_shortest_check_bits(ps) < c.required

\* "while self.protocol_secure and (num_key_bits < key_length or
\*  num_check_bits < required_num_check_bits)"
RunContinue(pr, ps, c) ==
    /\ pr.protocol_secure
    /\ \/ get_shortest_key_length(ps) < c.key_length
       \/ get_shortest_check_bits(ps) < c.required

\* A call of run_n_steps(n), and of run(num_iterations=n), which delegates:
\* with the flag down it returns at once, else it enters the loop.
RunNStepsCall ==
    /\ caller.pc = "idle"
    /\ error = "none"
    /\ \E n \in 0..MaxN :
        /\ proto.protocol_secure => proto.num_iterations + n <= IterBound
        /\ caller' = IF StepSecure(proto)
                     THEN [Called("run_n_steps") EXCEPT
                             !.pc = "run_n_steps", !.n = n,
                             !.start = proto.num_iterations]
                     ELSE Called("run_n_steps")
    /\ UNCHANGED <<parties, chans, network, qchls, nm, cchl, proto, error>>

\* One pass of the loop of run_n_steps.
RunNStepsIter ==
    /\ caller.pc = "run_n_steps"
    /\ error = "none"
    /\ RunNStepsContinue(proto, caller)
    /\ \E o \in run_one_step(Graph, network, qchls) : Returns(o)
    /\ caller' = [caller EXCEPT !.count = @ + 1]

\* The loop of run_n_steps ends and the call returns.
RunNStepsExit ==
    /\ caller.pc = "run_n_steps"
    /\ error = "none"
    /\ ~RunNStepsContinue(proto, caller)
    /\ caller' = [Idle("run_n_steps") EXCEPT !.entered = caller.entered]
    /\ UNCHANGED <<parties, chans, network, qchls, nm, cchl, proto, error>>

\* A call of run(security=..., key_length=...) without a count.
RunCall ==
    /\ caller.pc = "idle"
    /\ error = "none"
    /\ \E security \in SecurityInputs, key_length \in 1..MaxKeyLen :
        caller' = [Called("run") EXCEPT
                     !.pc = "run", !.key_length = key_length,
                     !.required = required_num_check_bits(security)]
    /\ UNCHANGED <<parties, chans, network, qchls, nm, cchl, proto, error>>

\* One pass of the loop of run.
RunIter ==
    /\ caller.pc = "run"
    /\ error = "none"
    /\ RunContinue(proto, parties, caller)
    /\ proto.num_iterations < IterBound
    /\ \E o \in run_one_step(Graph, network, qchls) : Returns(o)
    /\ UNCHANGED caller

\* The loop of run ends and the call returns.
RunExit ==
    /\ caller.pc = "run"
    /\ error = "none"
    /\ ~RunContinue(proto, parties, caller)
    /\ caller' = [Idle("run") EXCEPT !.entered = caller.entered]
    /\ UNCHANGED <<parties, chans, network, qchls, nm, cchl, proto, error>>

NextRun ==
    \/ RunOneStep
    \/ RunNStepsCall
    \/ RunNStepsIter
    \/ RunNStepsExit
    \/ RunCall
    \/ RunIter
    \/ RunExit

SpecRun == InitBB84 /\ [][NextRun]_vars

-----------------------------------------------------------------------------
(* Properties of 2-party BB84 and of the run loop.                         *)

\* The key that party p holds for peer: {timestep: bit}.
KeyOf(ledger, peer) ==
    [t \in {s \in DOMAIN ledger : peer \in DOMAIN ledger[s]} |-> ledger[t][peer]]

\* The (timestep, peer) coordinates of a ledger.
Coords(ledger) ==
    UNION {{<<t, u>> : u \in DOMAIN ledger[t]} : t \in DOMAIN ledger}

\* C1: in 2-party BB84 with no eavesdropper protocol_secure is true after
\* any number of iterations, and the secret key Alice holds for Bob equals
\* the secret key Bob holds for Alice at every timestep coordinate.
C1_BB84KeysAgree ==
    (proto.variant = "BB84" /\ ~proto.eavesdropping) =>
        /\ proto.protocol_secure
        /\ KeyOf(parties[0].secret_keys, 1) = KeyOf(parties[1].secret_keys, 0)

\* Two iterations without an eavesdropper both left a secret key bit.
C1_Witness ==
    /\ proto.variant = "BB84" /\ ~proto.eavesdropping
    /\ proto.num_iterations >= 2
    /\ Cardinality(DOMAIN KeyOf(parties[0].secret_keys, 1)) >= 2

\* C2: once protocol_secure is false every step of run_one_step, run_n_steps
\* and run leaves the protocol object (timestep, num_iterations, flag,
\* stored history), the parties, the channels and the classical channel as
\* they are.
C2_AbortedIsTerminal ==
    [][~proto.protocol_secure =>
          /\ proto' = proto
          /\ parties' = parties
          /\ chans' = chans
          /\ cchl' = cchl
          /\ nm' = nm]_vars

\* run_n_steps was called with the flag already down, and has returned.
C2_Witness ==
    /\ ~proto.protocol_secure
    /\ caller.pc = "idle"
    /\ caller.last = "run_n_steps"
    /\ ~caller.entered

\* C3 as stated: after run_one_step has returned, completed or aborted,
\* every coordinate of secret_keys is in sifted_keys and not in check_bits.
C3_SecretWithinSiftedMinusCheck ==
    caller.pc = "idle" =>
        \A u \in DOMAIN parties :
            /\ Coords(parties[u].secret_keys) \subseteq Coords(parties[u].sifted_keys)
            /\ Coords(parties[u].secret_keys) \cap Coords(parties[u].check_bits) = {}

\* C3 amended: after run_one_step has returned, every coordinate of
\* secret_keys is in sifted_keys with the same bit, and unless the iteration
\* aborted none of them is in check_bits.
C3_SecretWithinSifted ==
    caller.pc = "idle" =>
        \A u \in DOMAIN parties :
            /\ Coords(parties[u].secret_keys) \subseteq Coords(parties[u].sifted_keys)
            /\ \A c \in Coords(parties[u].secret_keys) :
                  parties[u].secret_keys[c[1]][c[2]] = parties[u].sifted_keys[c[1]][c[2]]
            /\ proto.protocol_secure =>
                  Coords(parties[u].secret_keys) \cap Coords(parties[u].check_bits) = {}

\* A completed iteration has consumed a sifted bit as a check bit.
C3_Witness ==
    /\ caller.last = "run_one_step"
    /\ proto.protocol_secure
    /\ Coords(parties[0].check_bits) # {}
    /\ Coords(parties[0].sifted_keys) # Coords(parties[0].secret_keys)

\* Alice and Bob hold different check bits for each other at some timestep.
CheckBitMismatch(ps) ==
    \E t \in (DOMAIN ps[0].check_bits) \cap (DOMAIN ps[1].check_bits) :
        /\ 1 \in DOMAIN ps[0].check_bits[t]
        /\ 0 \in DOMAIN ps[1].check_bits[t]
        /\ ps[0].check_bits[t][1] # ps[1].check_bits[t][0]

\* C4: an iteration that detects a check-bit mismatch sets protocol_secure
\* to false, leaves the check bit of the timestep in the secret keys, stores
\* the snapshot of the timestep and does not advance the timestep; an
\* iteration that does not abort advances the timestep by exactly one.
C4_AbortKeepsTimestep ==
    [][proto'.num_iterations # proto.num_iterations =>
          /\ CheckBitMismatch(parties') => ~proto'.protocol_secure
          /\ ~proto'.protocol_secure =>
                /\ proto'.timestep = proto.timestep
                /\ nm'.timestep = nm.timestep
                /\ cchl'.timestep = cchl.timestep
                /\ proto.num_iterations \in DOMAIN proto'.stored_data
                /\ \A u \in DOMAIN parties' :
                      /\ parties'[u].timestep = parties[u].timestep
                      /\ parties'[u].timestep \in DOMAIN parties'[u].stored_data
                      /\ parties'[u].stored_data[parties'[u].timestep]
                            = PartySnapshot(parties'[u])
                      /\ parties'[u].secret_keys = parties'[u].sifted_keys
                /\ <<proto.timestep, 1>> \in
                      Coords(parties'[0].secret_keys) \cap Coords(parties'[0].check_bits)
          /\ proto'.protocol_secure =>
                /\ proto'.timestep = proto.timestep + 1
                /\ nm'.timestep = nm.timestep + 1
                /\ \A u \in DOMAIN parties' :
                      parties'[u].timestep = parties[u].timestep + 1]_vars

\* An iteration has aborted on a mismatch.
C4_Witness ==
    /\ ~proto.protocol_secure
    /\ CheckBitMismatch(parties)
    /\ proto.timestep = proto.num_iterations

RunTargetMet(ps, c) ==
    /\ get_shortest_key_length(ps) >= c.key_length
    /\ get_shortest_check_bits(ps) >= c.required

\* C8: run() without a count returns only with protocol_secure false or with
\* the shortest secret key at least key_length long and the shortest check-bit
\* record at least required_num_check_bits(security) long, and it runs no
\* iteration from a state where that already holds.
C8_RunUntilTarget ==
    [][caller.pc = "run" =>
          /\ caller'.pc = "idle" =>
                ~proto.protocol_secure \/ RunTargetMet(parties, caller)
          /\ proto'.num_iterations # proto.num_iterations =>
                ~RunTargetMet(parties, caller)]_vars

\* run() asked for one check bit and one key bit and the ledgers hold them.
C8_Witness ==
    /\ caller.pc = "run"
    /\ caller.required >= 1
    /\ proto.protocol_secure
    /\ proto.num_iterations >= 2
    /\ RunTargetMet(parties, caller)

-----------------------------------------------------------------------------
(* The network manager on its own: construction, next_timestep and         *)
(* intercept_edges on the topologies that the protocol classes build.      *)

\* Parties of the largest network, and eavesdroppers inserted per behaviour.
MaxParties == 3
MaxEves == 2

\* ChainedBB84.__init__: edges = [(i, i + 1) for i in range(k - 1)]
PathEdges(k) == {<<i, i + 1>> : i \in 0..(k - 2)}

\* The default star graph: edges = [(0, i + 1) for i in range(k - 1)]
StarEdges(k) == {<<0, i>> : i \in 1..(k - 1)}

Topologies ==
    {PathEdges(k) : k \in 2..MaxParties} \cup {StarEdges(k) : k \in 2..MaxParties}

\* NetworkManager(cchl, edges), with no protocol object around it.
InitNet ==
    \E edges \in Topologies :
        LET w == NewNetwork(edges)
        IN /\ parties = w.parties
           /\ chans = w.chans
           /\ cchl = w.cchl
           /\ error = w.err
           /\ network = edges
           /\ qchls = [e \in edges |-> e]
           /\ nm = [timestep |-> 0, intercepted_edges |-> {}]
           /\ proto = NewProto("none")
           /\ caller = Idle("init")

Eves == {u \in DOMAIN parties : parties[u].is_eve}

\* A call of NetworkManager.intercept_edges(intercepted_edges, cchl) on edges
\* of the graph.
InterceptEdges ==
    /\ error = "none"
    /\ \E X \in (SUBSET network) \ {{}} :
        /\ Cardinality(Eves) + Cardinality(X) <= MaxEves
        /\ LET g == intercept_edges(World, network, qchls, X)
           IN /\ parties' = g.w.parties
              /\ chans' = g.w.chans
              /\ cchl' = g.w.cchl
              /\ error' = g.w.err
              /\ network' = g.network
              /\ qchls' = g.qchls
              /\ nm' = [nm EXCEPT !.intercepted_edges = X]
    /\ caller' = Idle("intercept_edges")
    /\ UNCHANGED proto

\* A call of NetworkManager.next_timestep().
NetNextTimestep ==
    /\ error = "none"
    /\ nm.timestep < MaxIter
    /\ LET w == nm_next_timestep(World, qchls)
       IN /\ parties' = w.parties
          /\ chans' = w.chans
    /\ nm' = [nm EXCEPT !.timestep = @ + 1]
    /\ caller' = Idle("next_timestep")
    /\ UNCHANGED <<network, qchls, cchl, proto, error>>

NextNet ==
    \/ InterceptEdges
    \/ NetNextTimestep

SpecNet == InitNet /\ [][NextNet]_vars

\* Every channel under an edge key (a, b) has a at its transmitting end and
\* b at its receiving end, no channel is recorded twice, and the keys are
\* the edges of the graph.
EdgesWellFormed(net, q, ch) ==
    /\ DOMAIN q = net
    /\ \A e \in DOMAIN q :
          /\ ch[q[e]].tx_device = e[1]
          /\ ch[q[e]].rx_device = e[2]
    /\ \A e, f \in DOMAIN q : q[e] = q[f] => e = f

\* C10: a call of intercept_edges on edges (tx, rx) of the graph leaves the
\* graph with (tx, eve) and (eve, rx) and without (tx, rx), eve being a party
\* whose uid was not in use before, and every channel under a key (a, b) has
\* a as its only tx device and b as its only rx device.
C10_InterceptRewires ==
    [][caller'.last = "intercept_edges" =>
          /\ \A e \in nm'.intercepted_edges :
                /\ e \notin network'
                /\ \E eve \in (DOMAIN parties') \ (DOMAIN parties) :
                      /\ parties'[eve].is_eve
                      /\ <<e[1], eve>> \in network'
                      /\ <<eve, e[2]>> \in network'
          /\ EdgesWellFormed(network', qchls', chans')]_vars

\* Two edges were intercepted by one call.
C10_Witness ==
    /\ caller.last = "intercept_edges"
    /\ Cardinality(nm.intercepted_edges) >= 2
    /\ Cardinality(Eves) >= 2
    /\ EdgesWellFormed(network, qchls, chans)

-----------------------------------------------------------------------------
(* Party.broadcast_check_bits / receive_check_bits on their own: two       *)
(* connected parties whose callers have sifted a bit in every timestep and *)
(* used some of the timesteps as check bits.                               *)

\* Timesteps of the check-bit records.
MaxT == 2

\* Party p (at timestep t) records the bit s[t] for peer, sifts it with
\* add_bit_to_keys, uses it as a check bit if t is in c, and moves to the
\* next timestep, up to timestep T.
RECURSIVE Stepped(_, _, _, _, _, _)
Stepped(p, peer, s, c, t, T) ==
    LET p1 == IF p.uid < peer
              THEN [p EXCEPT !.tx_bits = store_value_in_dict(@, t, peer, s[t])]
              ELSE [p EXCEPT !.rx_bits = store_value_in_dict(@, t, peer, s[t])]
        p2 == add_bit_to_keys(p1, peer)
        p3 == IF t \in c THEN add_check_bit(p2, peer) ELSE p2
    IN IF t = T THEN p3
       ELSE Stepped(party_next_timestep(p3), peer, s, c, t + 1, T)

RECURSIVE CchlAt(_, _)
CchlAt(c, T) == IF c.timestep = T THEN c ELSE CchlAt(cchl_next_timestep(c), T)

RECURSIVE ChanAt(_, _)
ChanAt(ch, T) == IF ch.timestep = T THEN ch ELSE ChanAt(chan_next_timestep(ch), T)

InitCheckBits ==
    \E T \in 1..MaxT :
      \E sa \in [1..T -> Bits], sb \in [1..T -> Bits] :
        \E ca \in SUBSET (1..T), cb \in SUBSET (1..T) :
          LET w == NewNetwork({<<0, 1>>})
              a == Stepped(party_next_timestep(w.parties[0]), 1, sa, ca, 1, T)
              b == Stepped(party_next_timestep(w.parties[1]), 0, sb, cb, 1, T)
          IN /\ parties = [u \in {0, 1} |-> IF u = 0 THEN a ELSE b]
             /\ chans = [i \in DOMAIN w.chans |-> ChanAt(w.chans[i], T)]
             /\ cchl = CchlAt(w.cchl, T)
             /\ error = "none"
             /\ network = {<<0, 1>>}
             /\ qchls = [e \in {<<0, 1>>} |-> e]
             /\ nm = [timestep |-> T, intercepted_edges |-> {}]
             /\ proto = NewProto("none")
             /\ caller = [pc |-> "idle", last |-> "init", received |-> {}]

\* A call of p.broadcast_check_bits(), once per party.
BroadcastCheckBits ==
    \E p \in DOMAIN parties :
        /\ MsgIdx(cchl, p, "broadcast_check_bits", parties[p].timestep) = {}
        /\ cchl' = broadcast_check_bits(cchl, parties[p])
        /\ caller' = [caller EXCEPT !.last = "broadcast_check_bits"]
        /\ UNCHANGED <<parties, chans, network, qchls, nm, proto, error>>

\* A call of p.receive_check_bits(peer), once per party, after the peer has
\* posted its check bits.
ReceiveCheckBits ==
    \E p \in DOMAIN parties, peer \in DOMAIN parties :
        /\ p # peer
        /\ p \notin caller.received
        /\ MsgIdx(cchl, peer, "broadcast_check_bits", parties[p].timestep) # {}
        /\ parties' = [parties EXCEPT ![p] = receive_check_bits(cchl, @, peer)]
        /\ caller' = [caller EXCEPT !.last = "receive_check_bits",
                                    !.received = @ \cup {p}]
        /\ UNCHANGED <<chans, network, qchls, nm, cchl, proto, error>>

NextCheckBits ==
    \/ BroadcastCheckBits
    \/ ReceiveCheckBits

SpecCheckBits == InitCheckBits /\ [][NextCheckBits]_vars

\* The two parties hold different check bits for each other at a timestep
\* where both hold one.
CheckBitsDiffer(p, peer) ==
    \E t \in (DOMAIN p.check_bits) \cap (DOMAIN peer.check_bits) :
        /\ peer.uid \in DOMAIN p.check_bits[t]
        /\ p.uid \in DOMAIN peer.check_bits[t]
        /\ p.check_bits[t][peer.uid] # peer.check_bits[t][p.uid]

InSeq(x, seq) == \E i \in DOMAIN seq : seq[i] = x

\* C9: after p.receive_check_bits(peer), peer is in p.compromised_chls if
\* and only if at some timestep both parties recorded a check bit for each
\* other and the two bits differ.
C9_CompromisedIffBitsDiffer ==
    \A p \in caller.received :
        LET peer == 1 - p
        IN InSeq(peer, parties[p].compromised_chls)
              <=> CheckBitsDiffer(parties[p], parties[peer])

\* C9, the direction the code keeps: differing bits at a common timestep put
\* the peer into compromised_chls.
C9_DifferingBitsFlagged ==
    \A p \in caller.received :
        LET peer == 1 - p
        IN CheckBitsDiffer(parties[p], parties[peer])
              => InSeq(peer, parties[p].compromised_chls)

\* A party received differing check bits and flagged the peer.
C9_Witness ==
    \E p \in caller.received :
        /\ CheckBitsDiffer(parties[p], parties[1 - p])
        /\ InSeq(1 - p, parties[p].compromised_chls)

-----------------------------------------------------------------------------
(* Chained BB84 over a path.                                               *)

\* ChainedBB84(k): the number of parties of the chain.
ChainParties == 3

\* ChainedBB84(k=ChainParties), no eavesdropper.
InitChain == Constructed("ChainedBB84", PathEdges(ChainParties), {})

NextChain == RunOneStep

SpecChain == InitChain /\ [][NextChain]_vars

\* The secret key of every adjacent pair, as each end of the pair holds it.
PairKeys ==
    UNION {{KeyOf(parties[e[1]].secret_keys, e[2]),
            KeyOf(parties[e[2]].secret_keys, e[1])} : e \in network}

\* C5: in chained BB84 over a path without an eavesdropper, after every
\* completed iteration the two ends of every edge hold the same secret key
\* for each other, and the keys of all edges are the same bit sequence.
C5_ChainKeysAgree ==
    (proto.variant = "ChainedBB84" /\ ~proto.eavesdropping /\ error = "none") =>
        /\ proto.protocol_secure
        /\ Cardinality(PairKeys) = 1

\* Two iterations of the chain both left a secret key bit on every edge.
C5_Witness ==
    /\ proto.variant = "ChainedBB84" /\ ~proto.eavesdropping
    /\ proto.num_iterations >= 2
    /\ \A e \in network :
          Cardinality(DOMAIN KeyOf(parties[e[1]].secret_keys, e[2])) >= 2

-----------------------------------------------------------------------------
(* Star-graph protocol 2: the reconciliation of the leader's keys.         *)

\* The number of parties of the star.
StarParties == 3

\* What one leg (leader, peer) sifts in a timestep: nothing, or a bit that
\* may also be used as a check bit.
LegDraws == {[bit |-> NoBit, check |-> FALSE]} \cup [bit : Bits, check : BOOLEAN]

\* One party's records of a timestep on the leg to `peer`: the bit as a
\* transmitted bit (the leader) or a received bit, add_bit_to_keys, and
\* add_check_bit when the bit is a check bit; a peer whose leg sifts nothing
\* calls synch_sifted_and_secret_keys.
LegStepped(p, peer, d, leads) ==
    LET p1 == IF leads
              THEN [p EXCEPT !.tx_bits = store_value_in_dict(@, p.timestep, peer, d.bit)]
              ELSE [p EXCEPT !.rx_bits = store_value_in_dict(@, p.timestep, peer, d.bit)]
        p2 == add_bit_to_keys(p1, peer)
    IN IF d.bit = NoBit
       THEN IF leads THEN p ELSE synch_sifted_and_secret_keys(p)
       ELSE IF d.check THEN add_check_bit(p2, peer) ELSE p2

\* The leader's records over the legs to the peers in us.
RECURSIVE LeaderLegs(_, _, _)
LeaderLegs(p, legs, us) ==
    IF us = <<>> THEN p
    ELSE LeaderLegs(LegStepped(p, Head(us), legs[Head(us)], TRUE), legs, Tail(us))

\* The parties after the timesteps t..T in which the legs sift h[t], without
\* an eavesdropper: both ends of a leg record the same bit.
RECURSIVE StarStepped(_, _, _, _)
StarStepped(ps, h, t, T) ==
    LET peers == Sorted(DOMAIN ps \ {0})
        ps1 == [uid \in DOMAIN ps |->
                  IF uid = 0 THEN LeaderLegs(ps[0], h[t], peers)
                  ELSE LegStepped(ps[uid], 0, h[t][uid], FALSE)]
    IN IF t = T THEN ps1
       ELSE StarStepped([uid \in DOMAIN ps |-> party_next_timestep(ps1[uid])],
                        h, t + 1, T)

\* A star of StarParties parties at timestep T, in an iteration in which at
\* least one leg has sifted a bit, before the iteration's reconciliation.
InitStarKeys ==
    \E T \in 1..MaxT :
      \E h \in [1..T -> [1..(StarParties - 1) -> LegDraws]] :
        LET edges == StarEdges(StarParties)
            w == NewNetwork(edges)
            first == [uid \in DOMAIN w.parties |-> party_next_timestep(w.parties[uid])]
        IN /\ \E uid \in 1..(StarParties - 1) : h[T][uid].bit # NoBit
           /\ parties = StarStepped(first, h, 1, T)
           /\ chans = [i \in DOMAIN w.chans |-> ChanAt(w.chans[i], T)]
           /\ cchl = CchlAt(w.cchl, T)
           /\ error = "none"
           /\ network = edges
           /\ qchls = [e \in edges |-> e]
           /\ nm = [timestep |-> T, intercepted_edges |-> {}]
           /\ proto = NewProto("Repeated2PartyQKD")
           /\ caller = Idle("init")

\* The end of the iteration: Repeated2PartyQKD.protocol from "Remove all
\* check bits from the secret keys" to its return.
Reconcile ==
    /\ error = "none"
    /\ caller.last # "reconcile"
    /\ LET w == StarReconcile(World, network, LeaderUid(World, network))
       IN /\ parties' = w.parties
          /\ cchl' = w.cchl
          /\ error' = w.err
    /\ caller' = Idle("reconcile")
    /\ UNCHANGED <<chans, network, qchls, nm, proto>>

\* run_one_step moves on to the next timestep; the iteration that follows
\* sifts nothing, so it consists of its reconciliation alone.
StarNextTimestep ==
    /\ error = "none"
    /\ caller.last = "reconcile"
    /\ nm.timestep <= MaxT
    /\ LET w == nm_next_timestep(World, qchls)
       IN /\ parties' = w.parties
          /\ chans' = w.chans
          /\ error' = w.err
    /\ cchl' = cchl_next_timestep(cchl)
    /\ nm' = [nm EXCEPT !.timestep = @ + 1]
    /\ caller' = Idle("next_timestep")
    /\ UNCHANGED <<network, qchls, proto>>

NextStarKeys ==
    \/ Reconcile
    \/ StarNextTimestep

SpecStarKeys == InitStarKeys /\ [][NextStarKeys]_vars

\* The bit sequences of all the keys of the star: the leader's key for each
\* successor (the empty key when it holds none) and each peer's key for the
\* leader.
StarKeySeqs ==
    LET leader_uid == LeaderUid(World, network)
    IN UNION {{BitsInOrder(KeyOf(parties[leader_uid].secret_keys, e[2])),
               BitsInOrder(KeyOf(parties[e[2]].secret_keys, leader_uid))}
              : e \in {x \in network : x[1] = leader_uid}}

-----------------------------------------------------------------------------
(* get_stored_data_for_timestep: the snapshots handed to a caller.  A      *)
(* returned object is [data, shared]: its value, and whether it is the     *)
(* stored object itself (a mutation by the caller then reaches the store). *)

\* The mutant of copy_deepcopy: the object itself is handed out.
copy_reference(x) == [data |-> x, shared |-> TRUE]

\* copy.deepcopy(x): an equal object that shares nothing with x.
copy_deepcopy(x) == [data |-> x, shared |-> FALSE]

\* UIComponent.get_stored_data_for_timestep on a store keyed by timestep
\* (Party, QuantumChannel): a fresh {} when the timestep is not a key.
get_stored_data_for_timestep(stored_data, timestep) ==
    IF timestep \in DOMAIN stored_data
    THEN copy_deepcopy(stored_data[timestep])
    ELSE [data |-> EmptyMap, shared |-> FALSE]

\* A dict key with its Python type: 1 and "1" are different keys.
IntKey(n) == [type |-> "int", int |-> n, str |-> ""]

StrKey(x) == [type |-> "str", int |-> 0, str |-> x]

\* UIComponent.get_stored_data_for_timestep on the classical channel, whose
\* stored_data is {} after reset and {"tstep_messages": ...} after
\* store_timestep_data: the keys are strings, the timestep is an int.
cchl_get_stored_data_for_timestep(c, timestep) ==
    LET keys == {StrKey(k) : k \in DOMAIN c.stored_data}
    IN IF IntKey(timestep) \in keys
       THEN copy_deepcopy(c.stored_data)
       ELSE [data |-> EmptyMap, shared |-> FALSE]

\* NetworkManager.get_party_stored_data_for_timestep
get_party_stored_data_for_timestep(w, timestep) ==
    [uid \in DOMAIN w.parties |->
        get_stored_data_for_timestep(w.parties[uid].stored_data, timestep)]

\* NetworkManager.get_qchl_stored_data_for_timestep
get_qchl_stored_data_for_timestep(w, q, timestep) ==
    [uid \in DOMAIN q |->
        get_stored_data_for_timestep(w.chans[q[uid]].stored_data, timestep)]

\* QKDProtocol.get_stored_data_for_timestep: [raised, data]; the protocol's
\* own entry is read with self.stored_data[timestep], a KeyError when the
\* protocol has stored nothing under that number.
proto_get_stored_data_for_timestep(o, q, timestep) ==
    IF timestep \notin DOMAIN o.proto.stored_data
    THEN [raised |-> "KeyError", data |-> EmptyMap]
    ELSE [raised |-> "none",
          data |-> [protocol |-> copy_deepcopy(o.proto.stored_data[timestep]),
                    cchl |-> cchl_get_stored_data_for_timestep(o.w.cchl, timestep),
                    parties |-> get_party_stored_data_for_timestep(o.w, timestep),
                    qchls |-> get_qchl_stored_data_for_timestep(o.w, q, timestep)]]

\* What a store holds under `timestep` after the caller has emptied the
\* object it was handed: the entry is emptied when that object is shared.
AfterMutation(stored_data, timestep, returned) ==
    IF returned.shared /\ timestep \in DOMAIN stored_data
    THEN [stored_data EXCEPT ![timestep] = EmptyMap]
    ELSE stored_data

\* A call of get_stored_data_for_timestep(t) on the protocol.
GetStoredData ==
    /\ caller.pc = "idle"
    /\ error = "none"
    /\ \E t \in 0..proto.timestep :
          LET r == proto_get_stored_data_for_timestep(Graph, qchls, t)
          IN caller' = [pc |-> "idle", last |-> "get_stored_data_for_timestep",
                        t |-> t, raised |-> r.raised, returned |-> r.data]
    /\ UNCHANGED <<parties, chans, network, qchls, nm, cchl, proto, error>>

\* The caller empties every dict of the structure it was handed.
MutateSnapshot ==
    /\ caller.pc = "idle"
    /\ caller.last = "get_stored_data_for_timestep"
    /\ caller.raised = "none"
    /\ LET r == caller.returned
           t == caller.t
       IN /\ proto' = [proto EXCEPT !.stored_data = AfterMutation(@, t, r.protocol)]
          /\ parties' = [uid \in DOMAIN parties |->
                           [parties[uid] EXCEPT !.stored_data =
                               AfterMutation(@, t, r.parties[uid])]]
          /\ chans' = [i \in DOMAIN chans |->
                         IF \E e \in DOMAIN qchls : qchls[e] = i
                         THEN [chans[i] EXCEPT !.stored_data =
                                 AfterMutation(@, t,
                                     r.qchls[CHOOSE e \in DOMAIN qchls : qchls[e] = i])]
                         ELSE chans[i]]
          /\ cchl' = IF r.cchl.shared
                     THEN [cchl EXCEPT !.stored_data = EmptyMap] ELSE cchl
          /\ caller' = [pc |-> "idle", last |-> "mutate", t |-> t,
                        raised |-> "none",
                        returned |-> [protocol |-> EmptyMap, cchl |-> EmptyMap,
                                      parties |-> EmptyMap, qchls |-> EmptyMap]]
    /\ UNCHANGED <<network, qchls, nm, error>>

NextStored ==
    \/ RunOneStep
    \/ GetStoredData
    \/ MutateSnapshot

SpecStored == InitBB84 /\ [][NextStored]_vars

\* The timesteps in which an iteration has been run.
RunTimesteps ==
    1..(IF proto.protocol_secure THEN proto.timestep - 1 ELSE proto.timestep)

\* The messages of a snapshot of the classical channel that were posted in
\* timestep t.
MessagesOf(snapshot, t) ==
    IF "tstep_messages" \notin DOMAIN snapshot THEN {}
    ELSE UNION {{snapshot.tstep_messages[u][i] :
                    i \in {j \in DOMAIN snapshot.tstep_messages[u] :
                             snapshot.tstep_messages[u][j].timestep = t}}
                : u \in DOMAIN snapshot.tstep_messages}

\* C11: for every timestep t that has been run, the classical-channel part
\* of what get_stored_data_for_timestep(t) returns contains the messages
\* posted in timestep t (every iteration of BB84 posts at least Alice's
\* transmission bases).
C11_StoredCchlHasMessages ==
    (caller.last = "get_stored_data_for_timestep" /\ caller.t \in RunTimesteps
        /\ caller.raised = "none")
    => \E m \in MessagesOf(caller.returned.cchl.data, caller.t) :
          m.type = "broadcast_tx_bases"

\* C12: emptying the structure returned by get_stored_data_for_timestep(t)
\* changes no party, channel or protocol field, and so no result of a later
\* get_stored_data_for_timestep call.
C12_MutationLeavesStateAlone ==
    [][caller'.last = "mutate" =>
          /\ UNCHANGED <<parties, chans, cchl, proto, nm, network, qchls, error>>
          /\ \A t \in 0..proto.timestep :
                proto_get_stored_data_for_timestep(Graph, qchls, t)' =
                proto_get_stored_data_for_timestep(Graph, qchls, t)]_vars

\* The caller has emptied the snapshot of a timestep that was run, and the
\* parties still hold their record of that timestep.
C12_Witness ==
    /\ caller.last = "mutate"
    /\ caller.t \in RunTimesteps
    /\ \A uid \in DOMAIN parties :
          /\ caller.t \in DOMAIN parties[uid].stored_data
          /\ parties[uid].stored_data[caller.t] # EmptyMap

-----------------------------------------------------------------------------
(* The key ledgers of one party: sifting, check bits, removal, truncation. *)

\* The peers of the party whose ledgers are exercised (party 0 of a star).
Peers == {1, 2}

\* What the party has recorded for one peer in the current timestep, before
\* sifting: a transmitted bit, a received bit, both or neither.
BitRecords == [tx : Bits \cup {NoBit}, rx : Bits \cup {NoBit}]

\* The party with the current timestep's records r[peer] stored as send_state
\* and receive store them.
Recorded(p, r) ==
    LET Tx(d, us) == [uid \in us |-> r[uid].tx]
        Rx(d, us) == [uid \in us |-> r[uid].rx]
        txU == {uid \in Peers : r[uid].tx # NoBit}
        rxU == {uid \in Peers : r[uid].rx # NoBit}
        p1 == IF txU = {} THEN p
              ELSE [p EXCEPT !.tx_bits = Put(@, p.timestep, Tx(@, txU))]
    IN IF rxU = {} THEN p1
       ELSE [p1 EXCEPT !.rx_bits = Put(@, p.timestep, Rx(@, rxU))]

\* The party after the timesteps t..T-1, in which it sifts h[t] with its
\* peers (as the sender to peer 1 and the receiver of peer 2) and removes the
\* check bits, and at timestep T.
RECURSIVE LedgerStepped(_, _, _, _)
LedgerStepped(p, h, t, T) ==
    IF t = T THEN p
    ELSE LET p1 == LegStepped(LegStepped(p, 1, h[t][1], TRUE), 2, h[t][2], FALSE)
         IN LedgerStepped(
                party_next_timestep(remove_check_bits_from_secret_keys(p1)),
                h, t + 1, T)

\* Whether the secret_keys object that synch_sifted_and_secret_keys installs
\* is the sifted_keys object itself.
SynchShares(p) == copy_deepcopy(p.sifted_keys).shared

\* The caller of the ledger operations: the last call, its arguments, whether
\* it raised, and whether secret_keys and sifted_keys are one object.
LedgerCall(last, uid, key_length, shares) ==
    [pc |-> "idle", last |-> last, uid |-> uid, key_length |-> key_length,
     shares |-> shares]

\* The order in which an iteration calls the ledger operations.
LedgerRank(last) ==
    CASE last = "init" -> 0
      [] last \in {"add_bit_to_keys", "add_all_bits_to_keys"} -> 1
      [] last = "add_check_bit" -> 2
      [] last = "remove_check_bits_from_secret_keys" -> 3
      [] OTHER -> 4

\* Party 0 of a star at timestep T with the records of T not yet sifted.
InitLedger ==
    \E T \in 1..MaxT :
      \E h \in [1..(T - 1) -> [Peers -> LegDraws]], r \in [Peers -> BitRecords] :
        LET edges == StarEdges(StarParties)
            p0 == party_next_timestep(NewParty(0, FALSE))
        IN /\ r[2].tx = NoBit
           /\ parties = [uid \in {0} |-> Recorded(LedgerStepped(p0, h, 1, T), r)]
           /\ chans = EmptyMap
           /\ cchl = CchlAt(NewCchl, T)
           /\ error = "none"
           /\ network = edges
           /\ qchls = EmptyMap
           /\ nm = [timestep |-> T, intercepted_edges |-> {}]
           /\ proto = NewProto("none")
           /\ caller = LedgerCall("init", NoUid, 0, FALSE)

\* The ledgers after an operation that changed secret_keys in place: when
\* secret_keys and sifted_keys are one object, sifted_keys has changed too.
InPlace(p) ==
    IF caller.shares THEN [p EXCEPT !.sifted_keys = p.secret_keys] ELSE p

LedgerFrame == UNCHANGED <<chans, network, qchls, nm, cchl, proto>>

\* A call of add_bit_to_keys(uid).
AddBitToKeys ==
    /\ error = "none" /\ LedgerRank(caller.last) < 1
    /\ \E uid \in Peers :
          /\ parties' = [parties EXCEPT ![0] = add_bit_to_keys(@, uid)]
          /\ caller' = LedgerCall("add_bit_to_keys", uid, 0, SynchShares(parties[0]))
    /\ UNCHANGED error
    /\ LedgerFrame

\* A call of add_all_bits_to_keys().
AddAllBitsToKeys ==
    /\ error = "none" /\ LedgerRank(caller.last) < 1
    /\ parties' = [parties EXCEPT ![0] = add_all_bits_to_keys(@)]
    /\ caller' = LedgerCall("add_all_bits_to_keys", NoUid, 0, SynchShares(parties[0]))
    /\ UNCHANGED error
    /\ LedgerFrame

\* A call of add_check_bit(uid).
AddCheckBit ==
    /\ error = "none" /\ LedgerRank(caller.last) < 2
    /\ \E uid \in Peers :
          /\ IF add_check_bit_raises(parties[0], uid)
             THEN error' = "KeyError" /\ UNCHANGED parties
             ELSE /\ parties' = [parties EXCEPT ![0] = add_check_bit(@, uid)]
                  /\ UNCHANGED error
          /\ caller' = LedgerCall("add_check_bit", uid, 0, caller.shares)
    /\ LedgerFrame

\* A call of remove_check_bits_from_secret_keys().
RemoveCheckBits ==
    /\ error = "none" /\ LedgerRank(caller.last) < 3
    /\ parties' = [parties EXCEPT ![0] =
                      InPlace(remove_check_bits_from_secret_keys(@))]
    /\ caller' = LedgerCall("remove_check_bits_from_secret_keys", NoUid, 0,
                            caller.shares)
    /\ UNCHANGED error
    /\ LedgerFrame

\* A call of truncate_secret_keys(key_length) or of
\* truncate_secret_keys(key_length, sender_uid), on the ledgers as they are
\* at the start of an iteration or after the removal of the check bits.
TruncateSecretKeys ==
    /\ error = "none" /\ LedgerRank(caller.last) \in {0, 3}
    /\ \E key_length \in 0..MaxT, sender_uid \in Peers \cup {NoUid} :
          /\ IF sender_uid # NoUid
                /\ sender_uid \notin DOMAIN reorder_by_uid(parties[0].secret_keys)
             THEN error' = "KeyError" /\ UNCHANGED parties
             ELSE /\ parties' = [parties EXCEPT ![0] =
                        InPlace(truncate_secret_keys(@, key_length, sender_uid))]
                  /\ UNCHANGED error
          /\ caller' = LedgerCall("truncate_secret_keys", sender_uid, key_length,
                                  caller.shares)
    /\ LedgerFrame

NextLedger ==
    \/ AddBitToKeys
    \/ AddAllBitsToKeys
    \/ AddCheckBit
    \/ RemoveCheckBits
    \/ TruncateSecretKeys

SpecLedger == InitLedger /\ [][NextLedger]_vars

\* The timesteps of a ledger whose map is empty.
EmptyTimesteps(ledger) == {t \in DOMAIN ledger : DOMAIN ledger[t] = {}}

\* The n earliest timesteps of a key (all of them when it has fewer).
Earliest(key, n) ==
    {t \in DOMAIN key : Cardinality({s \in DOMAIN key : s < t}) < n}

\* C13: truncate_secret_keys(L, peer) leaves the key for peer with exactly
\* min(L, previous length) bits, those of the earliest timesteps, leaves no
\* empty timestep map, and leaves the keys for the other peers as they were;
\* without a peer this holds for the key of every peer.
C13_TruncateKeepsEarliest ==
    [][(caller'.last = "truncate_secret_keys" /\ error' = "none") =>
          LET old == parties[0].secret_keys
              new == parties'[0].secret_keys
              L == caller'.key_length
          IN /\ \A u \in Peers :
                   LET key == KeyOf(old, u)
                       n == Min2(L, Cardinality(DOMAIN key))
                   IN IF caller'.uid \in {u, NoUid}
                      THEN /\ Cardinality(DOMAIN KeyOf(new, u)) = n
                           /\ KeyOf(new, u) = [t \in Earliest(key, n) |-> key[t]]
                      ELSE KeyOf(new, u) = key
             /\ EmptyTimesteps(new) = {}
             /\ parties'[0].sifted_keys = parties[0].sifted_keys
             /\ parties'[0].check_bits = parties[0].check_bits]_vars

\* truncate_secret_keys(1, 1) has cut a key of two bits down to its first
\* bit and left the key for peer 2 alone.
C13_Witness ==
    /\ caller.last = "truncate_secret_keys" /\ error = "none"
    /\ caller.uid = 1 /\ caller.key_length = 1
    /\ DOMAIN KeyOf(parties[0].secret_keys, 1) = {1}
    /\ DOMAIN KeyOf(parties[0].sifted_keys, 1) = {1, 2}
    /\ parties[0].check_bits = EmptyMap
    /\ DOMAIN KeyOf(parties[0].secret_keys, 2) = {2}

\* C14: add_check_bit(peer) copies sifted_keys[timestep][peer] into
\* check_bits[timestep][peer] when that bit exists and otherwise does
\* nothing, without an error; sifted_keys and secret_keys stay as they are.
C14_AddCheckBitCopiesOrNothing ==
    [][caller'.last = "add_check_bit" =>
          LET p == parties[0]
              t == p.timestep
              u == caller'.uid
              exists == t \in DOMAIN p.sifted_keys /\ u \in DOMAIN p.sifted_keys[t]
          IN /\ error' = "none"
             /\ parties'[0].sifted_keys = p.sifted_keys
             /\ parties'[0].secret_keys = p.secret_keys
             /\ parties'[0].check_bits =
                  IF exists
                  THEN store_value_in_dict(p.check_bits, t, u, p.sifted_keys[t][u])
                  ELSE p.check_bits]_vars

\* C15: after remove_check_bits_from_secret_keys the coordinates of
\* secret_keys are the previous ones without those of check_bits, with their
\* bits, no timestep is left with an empty map, sifted_keys and check_bits
\* are unchanged, and a second application changes nothing.
C15_RemoveCheckBits ==
    [][caller'.last = "remove_check_bits_from_secret_keys" =>
          LET p == parties[0]
              q == parties'[0]
          IN /\ Coords(q.secret_keys) = Coords(p.secret_keys) \ Coords(p.check_bits)
             /\ \A c \in Coords(q.secret_keys) :
                   q.secret_keys[c[1]][c[2]] = p.secret_keys[c[1]][c[2]]
             /\ EmptyTimesteps(q.secret_keys) = {}
             /\ q.sifted_keys = p.sifted_keys
             /\ q.check_bits = p.check_bits
             /\ remove_check_bits_from_secret_keys(q) = q]_vars

\* A removal took the only bit of a timestep out of secret_keys and kept a
\* bit of another timestep.
C15_Witness ==
    /\ caller.last = "remove_check_bits_from_secret_keys"
    /\ \E t \in DOMAIN parties[0].check_bits :
          /\ t \in DOMAIN parties[0].sifted_keys
          /\ DOMAIN parties[0].sifted_keys[t] = DOMAIN parties[0].check_bits[t]
    /\ parties[0].secret_keys # EmptyMap

\* C16: add_bit_to_keys(peer) and add_all_bits_to_keys store for the peer (for
\* every peer) the tx bit of the current timestep when there is one and the
\* rx bit only when there is no tx bit, change nothing else of sifted_keys,
\* and leave secret_keys an independent copy equal to sifted_keys.
C16_TxBitTakesPrecedence ==
    [][caller'.last \in {"add_bit_to_keys", "add_all_bits_to_keys"} =>
          LET p == parties[0]
              q == parties'[0]
              t == p.timestep
              U == IF caller'.last = "add_bit_to_keys" THEN {caller'.uid} ELSE Peers
              Tx(u) == t \in DOMAIN p.tx_bits /\ u \in DOMAIN p.tx_bits[t]
              Rx(u) == t \in DOMAIN p.rx_bits /\ u \in DOMAIN p.rx_bits[t]
              At(ledger, s, u) ==
                  IF s \in DOMAIN ledger /\ u \in DOMAIN ledger[s]
                  THEN ledger[s][u] ELSE NoBit
          IN /\ \A u \in Peers, s \in 1..t :
                   At(q.sifted_keys, s, u) =
                     IF s = t /\ u \in U /\ Tx(u) THEN p.tx_bits[t][u]
                     ELSE IF s = t /\ u \in U /\ Rx(u) THEN p.rx_bits[t][u]
                     ELSE At(p.sifted_keys, s, u)
             /\ q.secret_keys = q.sifted_keys
             /\ ~caller'.shares]_vars

\* add_bit_to_keys(1) found a tx bit and a different rx bit for peer 1 and
\* stored the tx bit.
C16_Witness ==
    LET p == parties[0]
        t == p.timestep
    IN /\ caller.last = "add_bit_to_keys" /\ caller.uid = 1
       /\ t \in DOMAIN p.tx_bits /\ 1 \in DOMAIN p.tx_bits[t]
       /\ t \in DOMAIN p.rx_bits /\ 1 \in DOMAIN p.rx_bits[t]
       /\ p.tx_bits[t][1] # p.rx_bits[t][1]
       /\ p.sifted_keys[t][1] = p.tx_bits[t][1]
       /\ p.secret_keys = p.sifted_keys


-----------------------------------------------------------------------------
(* NQubitState (state.py): state vectors and their measurement.            *)
(* A vector of real coefficients is held by an integer vector of the same  *)
(* direction: the unit vector v/|v| of the program is the integer vector v *)
(* with no common factor.  Every state and eigenvector drawn below has a   *)
(* rational direction, so the projections are computed exactly.            *)

MaxCoeff == 1

RECURSIVE SumTo(_, _)
SumTo(s, n) == IF n = 0 THEN 0 ELSE s[n] + SumTo(s, n - 1)

SeqSum(s) == SumTo(s, Len(s))

RECURSIVE ProductTo(_, _)
ProductTo(s, n) == IF n = 0 THEN 1 ELSE s[n] * ProductTo(s, n - 1)

SeqProduct(s) == ProductTo(s, Len(s))

\* The sequence s with every element computed once.
RECURSIVE MaterialisedTo(_, _)
MaterialisedTo(s, n) ==
    IF n = 0 THEN <<>> ELSE Append(MaterialisedTo(s, n - 1), s[n])

Materialised(s) == MaterialisedTo(s, Len(s))

Abs(x) == IF x < 0 THEN -x ELSE x

RECURSIVE Gcd(_, _)
Gcd(a, b) == IF b = 0 THEN a ELSE Gcd(b, a % b)

RECURSIVE GcdTo(_, _)
GcdTo(v, n) == IF n = 0 THEN 0 ELSE Gcd(Abs(v[n]), GcdTo(v, n - 1))

VecGcd(v) == GcdTo(v, Len(v))

\* numpy's dot of two vectors of one length.
dot(u, v) == SeqSum([i \in 1..Len(u) |-> u[i] * v[i]])

Negated(v) == [i \in 1..Len(v) |-> -v[i]]

IsZero(v) == \A i \in 1..Len(v) : v[i] = 0

\* shared_fns.normalise, which state.py calls and shared_fns.py does not
\* define: the vector scaled to length one.  The zero vector has no
\* direction and is returned as it is.
normalise(v) ==
    IF IsZero(v) THEN v
    ELSE LET g == VecGcd(v) IN [i \in 1..Len(v) |-> v[i] \div g]

\* NQubitState.__init__: the checks on the coefficients, then normalise.
NQubitState(coefficients) ==
    IF IsZero(coefficients)
    THEN [raised |-> "ValueError", coefficients |-> <<>>]
    ELSE IF Len(coefficients) \notin {1, 2, 4}
    THEN [raised |-> "ValueError", coefficients |-> <<>>]
    ELSE [raised |-> "none", coefficients |-> normalise(coefficients)]

\* shared_fns.get_measurement_operator(eigenvalues, eigenvectors): the
\* operator V D V^-1 with the given eigenvalues on the given eigenvectors.
\* Eigenvalues are held doubled (evals2), so that halves are integers.
get_measurement_operator(name, evals2, evecs) ==
    [name |-> name, rows |-> Len(evecs), cols |-> Len(evecs),
     evals2 |-> evals2, evecs |-> evecs]

\* meas_operators.py
M_S1 == get_measurement_operator("M_S1", <<0, 2>>, << <<1, 0>>, <<0, 1>> >>)

M_H1 == get_measurement_operator("M_H1", <<0, 2>>, << <<1, 1>>, <<1, -1>> >>)

M_S2_1 ==
    get_measurement_operator("M_S2_1", <<0, 0, 2, 2>>,
        << <<1, 0, 0, 0>>, <<0, 1, 0, 0>>, <<0, 0, 1, 0>>, <<0, 0, 0, 1>> >>)

M_H2_1 ==
    get_measurement_operator("M_H2_1", <<0, 0, 2, 2>>,
        << <<1, 0, 1, 0>>, <<0, 1, 0, 1>>, <<1, 0, -1, 0>>, <<0, 1, 0, -1>> >>)

M_S2_0 ==
    get_measurement_operator("M_S2_0", <<0, 0, 2, 2>>,
        << <<1, 0, 0, 0>>, <<0, 0, 1, 0>>, <<0, 1, 0, 0>>, <<0, 0, 0, 1>> >>)

M_H2_0 ==
    get_measurement_operator("M_H2_0", <<0, 0, 2, 2>>,
        << <<1, 1, 0, 0>>, <<0, 0, 1, 1>>, <<1, -1, 0, 0>>, <<0, 0, 1, -1>> >>)

\* The 4-outcome operator of the 2-qubit test:
\* get_measurement_operator([0, 1, 2, 3], the computational basis).
M_4 ==
    get_measurement_operator("M_4", <<0, 2, 4, 6>>,
        << <<1, 0, 0, 0>>, <<0, 1, 0, 0>>, <<0, 0, 1, 0>>, <<0, 0, 0, 1>> >>)

\* Operators whose eigenvalues are not integers: 0.5 * M_S1 (eigenvalues 0
\* and 1/2) and M_H1 + 0.5 * I (eigenvalues 1/2 and 3/2).
HalfM_S1 ==
    get_measurement_operator("HalfM_S1", <<0, 1>>, << <<1, 0>>, <<0, 1>> >>)

ShiftedM_H1 ==
    get_measurement_operator("ShiftedM_H1", <<1, 3>>, << <<1, 1>>, <<1, -1>> >>)

\* An operator that is not square.
NonSquare == [name |-> "NonSquare", rows |-> 2, cols |-> 4,
              evals2 |-> <<>>, evecs |-> <<>>]

IntegerOperators == {M_S1, M_H1, M_S2_1, M_H2_1, M_S2_0, M_H2_0, M_4}

Operators == IntegerOperators \cup {HalfM_S1, ShiftedM_H1, NonSquare}

\* np.linalg.eigh(operator): the eigenvalues and an orthogonal basis of
\* eigenvectors (any basis of a degenerate eigenspace gives the same
\* projection onto it).
eigh(operator) == [evals2 |-> operator.evals2, evecs |-> operator.evecs]

\* int(round(x)) of the eigenvalue x = x2 / 2: the nearest integer, a half
\* going to the even neighbour.
round_eigenvalue(x2) ==
    IF x2 % 2 = 0 THEN x2 \div 2
    ELSE LET k == (x2 - 1) \div 2
         IN IF k % 2 = 0 THEN k ELSE k + 1

\* The squared lengths of the eigenvectors, and the factor that clears the
\* denominator of eigenvector j once it is scaled to length one.
SquaredLengths(evecs) ==
    Materialised([k \in 1..Len(evecs) |-> dot(evecs[k], evecs[k])])

EvecWeight(lengths2, j) ==
    SeqProduct([k \in 1..Len(lengths2) |-> IF k = j THEN 1 ELSE lengths2[k]])

\* The mutant of subspace_probability: every subspace can be drawn.
subspace_probability_any(psi, evecs, eigenvalues, distinct_evalue) == 1

\* measure, lines 104-112: the probability of the subspace of
\* distinct_evalue, the sum of |evector.psi|^2 over its eigenvectors (in
\* units of 1 / (psi.psi * the product of the eigenvectors' squared lengths)).
subspace_probability(psi, evecs, eigenvalues, distinct_evalue) ==
    LET lengths2 == SquaredLengths(evecs)
    IN SeqSum([j \in 1..Len(evecs) |->
                 IF eigenvalues[j] = distinct_evalue
                 THEN dot(evecs[j], psi) * dot(evecs[j], psi)
                      * EvecWeight(lengths2, j)
                 ELSE 0])

\* The mutant of subspace_projection: the components along all the
\* eigenvectors are summed, whatever their eigenvalue.
subspace_projection_all(psi, evecs, eigenvalues, distinct_evalue) ==
    LET lengths2 == SquaredLengths(evecs)
    IN normalise([i \in 1..Len(psi) |->
           SeqSum([j \in 1..Len(evecs) |->
                     dot(evecs[j], psi) * EvecWeight(lengths2, j)
                     * evecs[j][i]])])

\* measure, lines 104-121: the normalised sum of the components
\* (evector.psi) * evector over the eigenvectors of distinct_evalue.
subspace_projection(psi, evecs, eigenvalues, distinct_evalue) ==
    LET lengths2 == SquaredLengths(evecs)
        component == Materialised([j \in 1..Len(evecs) |->
                        IF eigenvalues[j] = distinct_evalue
                        THEN dot(evecs[j], psi) * EvecWeight(lengths2, j)
                        ELSE 0])
    IN normalise(Materialised([i \in 1..Len(psi) |->
           SeqSum([j \in 1..Len(evecs) |-> component[j] * evecs[j][i]])]))

\* NQubitState.measure(operator): the outcomes that np.random.choice can
\* draw, each with the measured value and the coefficients left behind.  A
\* non-square operator raises ValueError, and so does the dot product of an
\* eigenvector with coefficients of another length.
nqs_measure(psi, operator) ==
    IF operator.rows # operator.cols
    THEN {[raised |-> "ValueError", measured_value |-> None,
           coefficients |-> psi]}
    ELSE IF operator.rows # Len(psi)
    THEN {[raised |-> "ValueError", measured_value |-> None,
           coefficients |-> psi]}
    ELSE LET e == eigh(operator)
             eigenvalues == [j \in 1..Len(e.evals2) |->
                               round_eigenvalue(e.evals2[j])]
             distinct_evalues == {eigenvalues[j] : j \in 1..Len(eigenvalues)}
         IN {[raised |-> "none", measured_value |-> d,
              coefficients |->
                  subspace_projection(psi, e.evecs, eigenvalues, d)] :
               d \in {x \in distinct_evalues :
                        subspace_probability(psi, e.evecs, eigenvalues, x) > 0}}

\* The coefficient vectors handed to the constructor.
CoeffVectors ==
    UNION {[1..n -> (-MaxCoeff)..MaxCoeff] : n \in 1..4}

MeasureCall(last, psi, before, operator, measured_value, raised) ==
    [pc |-> "idle", last |-> last, psi |-> psi, before |-> before,
     operator |-> operator, measured_value |-> measured_value,
     raised |-> raised]

InitMeasure ==
    /\ parties = EmptyMap
    /\ chans = EmptyMap
    /\ cchl = NewCchl
    /\ error = "none"
    /\ network = {}
    /\ qchls = EmptyMap
    /\ nm = [timestep |-> 0, intercepted_edges |-> {}]
    /\ proto = NewProto("none")
    /\ caller = MeasureCall("init", <<>>, <<>>, NonSquare, None, "none")

MeasureFrame ==
    UNCHANGED <<parties, chans, network, qchls, nm, cchl, proto, error>>

\* psi = NQubitState(coefficients)
NewNQubitState ==
    /\ caller.last = "init"
    /\ \E coefficients \in CoeffVectors :
         LET r == NQubitState(coefficients)
         IN caller' = MeasureCall("NQubitState", r.coefficients, <<>>,
                                  NonSquare, None, r.raised)
    /\ MeasureFrame

\* psi.measure(operator)
Measure ==
    /\ caller.last \in {"NQubitState", "measure"}
    /\ caller.raised = "none"
    /\ \E operator \in Operators :
         \E r \in nqs_measure(caller.psi, operator) :
           caller' = MeasureCall("measure", r.coefficients, caller.psi,
                                 operator, r.measured_value, r.raised)
    /\ MeasureFrame

NextMeasure == NewNQubitState \/ Measure

SpecMeasure == InitMeasure /\ [][NextMeasure]_vars

\* The eigenvalues of the operator of the last call that are integers, each
\* with the indices of its eigenvectors.
EigenIndices(operator, value2) ==
    {j \in 1..Len(operator.evals2) : operator.evals2[j] = value2}

\* C17: measuring an eigenvector of the Standard, the Hadamard or the
\* 4-outcome operator with that operator returns the eigenvector's eigenvalue
\* and leaves the coefficients as they were, up to sign.
C17_EigenvectorMeasuredExactly ==
    [][(/\ caller'.last = "measure"
        /\ caller'.operator \in {M_S1, M_H1, M_4})
       => \A j \in 1..Len(caller'.operator.evecs) :
            caller.psi \in {normalise(caller'.operator.evecs[j]),
                            Negated(normalise(caller'.operator.evecs[j]))}
            => /\ caller'.raised = "none"
               /\ 2 * caller'.measured_value = caller'.operator.evals2[j]
               /\ caller'.psi \in {caller.psi, Negated(caller.psi)}]_vars

\* The Hadamard eigenvector |-> and the computational state |10> were each
\* measured with the matching operator.
C17_Witness ==
    /\ caller.last = "measure"
    /\ \/ /\ caller.operator = M_H1
          /\ caller.before = <<1, -1>>
          /\ caller.measured_value = 1
          /\ caller.psi = <<1, -1>>
       \/ /\ caller.operator = M_4
          /\ caller.before = <<0, 0, -1, 0>>
          /\ caller.measured_value = 2
          /\ caller.psi = <<0, 0, -1, 0>>

\* w is, up to sign, the normalised projection of psi onto the span of the
\* eigenvectors with the indices J: w lies in the span (it is orthogonal to
\* every other eigenvector), what is left of psi is orthogonal to the span,
\* and w has length one.
IsProjection(w, psi, evecs, J) ==
    /\ Len(w) = Len(psi)
    /\ ~IsZero(w)
    /\ w = normalise(w)
    /\ \A j \in (1..Len(evecs)) \ J : dot(evecs[j], w) = 0
    /\ \A j \in J :
         dot(w, w) * dot(evecs[j], psi) = dot(psi, w) * dot(evecs[j], w)

\* C18 as stated: for every state and operator, measure returns one of the
\* operator's eigenvalues and leaves the normalised projection of the state
\* onto the eigenspace of that eigenvalue.
C18_EveryOperator ==
    [][(caller'.last = "measure" /\ caller'.raised = "none")
       => LET J == EigenIndices(caller'.operator, 2 * caller'.measured_value)
          IN /\ J # {}
             /\ IsProjection(caller'.psi, caller.psi,
                             caller'.operator.evecs, J)]_vars

\* C18, amended: for every state and every operator whose eigenvalues are
\* integers, measure returns one of the operator's eigenvalues and leaves,
\* up to sign, the normalised projection of the state onto the eigenspace of
\* that eigenvalue.
C18_IntegerOperators ==
    [][(/\ caller'.last = "measure"
        /\ caller'.raised = "none"
        /\ caller'.operator \in IntegerOperators)
       => LET J == EigenIndices(caller'.operator, 2 * caller'.measured_value)
          IN /\ J # {}
             /\ IsProjection(caller'.psi, caller.psi,
                             caller'.operator.evecs, J)]_vars

\* A 2-qubit state outside every eigenspace of M_H2_1 was measured with it
\* and collapsed onto the two-dimensional eigenspace of eigenvalue 1.
C18_Witness ==
    /\ caller.last = "measure"
    /\ caller.operator = M_H2_1
    /\ caller.before = <<1, 1, 0, -1>>
    /\ caller.measured_value = 1
    /\ caller.psi = <<1, 2, -1, -2>>


-----------------------------------------------------------------------------
(* Party.receive called with and without an armed basis: the 2-party       *)
(* network, with or without an eavesdropper, whose parties are armed       *)
(* (expect_tx_from, measure_wrt) and handed states in any order.           *)

ReceiveCall(last, uid, tx_uid) ==
    [pc |-> "idle", last |-> last, uid |-> uid, tx_uid |-> tx_uid]

InitReceive == InitBB84

\* The parties that have a receiving socket.
Receivers == {uid \in DOMAIN parties : DOMAIN parties[uid].rx_actions # {}}

\* A call of expect_tx_from(tx_uid) on party uid, the first of its timestep.
ExpectTxFrom ==
    /\ \E uid \in {u \in Receivers : parties[u].tstep_tx_uid = NoUid} :
         \E tx_uid \in DOMAIN parties[uid].rx_actions :
           /\ parties' = [parties EXCEPT ![uid] = expect_tx_from(@, tx_uid)]
           /\ caller' = ReceiveCall("expect_tx_from", uid, tx_uid)
    /\ error' = "none"
    /\ UNCHANGED <<chans, network, qchls, nm, cchl, proto>>

\* A call of measure_wrt(basis) on party uid, which expects a sender.
MeasureWrt ==
    /\ \E uid \in {u \in Receivers : parties[u].tstep_tx_uid # NoUid},
          basis \in Bases :
         /\ parties' = [parties EXCEPT ![uid] = measure_wrt(@, basis)]
         /\ caller' = ReceiveCall("measure_wrt", uid, parties[uid].tstep_tx_uid)
    /\ error' = "none"
    /\ UNCHANGED <<chans, network, qchls, nm, cchl, proto>>

\* A call of receive(qstate, tx_uid) on party uid, as its quantum channel
\* makes it when a state arrives (as long as the party has measured at most
\* one state per timestep that has begun).
Receive ==
    /\ \E uid \in {u \in Receivers :
                    parties[u].total_qstates_measured <= nm.timestep} :
         \E tx_uid \in DOMAIN parties[uid].rx_actions, basis \in Bases,
            bit \in Bits :
           \E r \in receive(World, uid, generate_state(basis, bit), tx_uid) :
             /\ parties' = r.parties
             /\ chans' = r.chans
             /\ error' = r.err
             /\ caller' = ReceiveCall("receive", uid, tx_uid)
    /\ UNCHANGED <<network, qchls, nm, cchl, proto>>

\* A call of NetworkManager.next_timestep() (the network with an
\* eavesdropper stays in its first timestep).
ReceiveNextTimestep ==
    /\ nm.timestep < MaxT
    /\ ~proto.eavesdropping
    /\ LET w == nm_next_timestep(World, qchls)
       IN /\ parties' = w.parties
          /\ chans' = w.chans
    /\ error' = "none"
    /\ nm' = [nm EXCEPT !.timestep = @ + 1]
    /\ caller' = ReceiveCall("next_timestep", NoUid, NoUid)
    /\ UNCHANGED <<network, qchls, cchl, proto>>

NextReceive == ExpectTxFrom \/ MeasureWrt \/ Receive \/ ReceiveNextTimestep

SpecReceive == InitReceive /\ [][NextReceive]_vars

\* Measuring is enabled for p and no basis is armed for the sender it
\* expects.
Unarmed(p) ==
    /\ p.measure_received_qstates
    /\ \/ p.tstep_tx_uid \notin DOMAIN p.tstep_rx_bases
       \/ p.tstep_rx_bases[p.tstep_tx_uid] = None

\* C19: receive on a party that measures and has no basis armed for the
\* sender it expects fails with an error, and the rx bits and rx bases of
\* the party are left as they were.
C19_UnarmedReceiveFails ==
    [][(caller'.last = "receive" /\ Unarmed(parties[caller'.uid]))
       => /\ error' \in {"KeyError", "TypeError"}
          /\ parties'[caller'.uid].rx_bits = parties[caller'.uid].rx_bits
          /\ parties'[caller'.uid].rx_bases = parties[caller'.uid].rx_bases
          /\ parties'[caller'.uid].total_qstates_measured =
                parties[caller'.uid].total_qstates_measured]_vars

\* A receive has failed with KeyError on a party that expects a sender and
\* was not armed in its timestep; the party has no rx bit and no rx basis
\* for that timestep.
C19_Witness ==
    /\ caller.last = "receive"
    /\ error = "KeyError"
    /\ LET p == parties[caller.uid]
       IN /\ ~p.is_eve
          /\ p.tstep_tx_uid # NoUid
          /\ p.tstep_tx_uid \notin DOMAIN p.tstep_rx_bases
          /\ p.timestep \notin DOMAIN p.rx_bits
          /\ p.timestep \notin DOMAIN p.rx_bases

\* Party p measures what it receives and holds a used-up basis (None) for
\* the sender it expects.
UsedUp(p) ==
    /\ p.measure_received_qstates
    /\ p.tstep_tx_uid \in DOMAIN p.tstep_rx_bases
    /\ p.tstep_rx_bases[p.tstep_tx_uid] = None

\* C38: arming a measurement basis is one-shot.  A receive that measured a
\* state leaves the basis armed for that sender cleared, and a receive on a
\* party whose basis for the expected sender is used up (no measure_wrt
\* since) fails with TypeError and leaves the rx bits and the rx bases of
\* the party, those already recorded in the timestep included, as they were.
C38_ArmedBasisIsOneShot ==
    [][caller'.last = "receive"
       => LET before == parties[caller'.uid]
              after == parties'[caller'.uid]
          IN /\ (before.measure_received_qstates /\ error' = "none")
                   => UsedUp(after)
             /\ UsedUp(before)
                   => /\ error' = "TypeError"
                      /\ after.rx_bits = before.rx_bits
                      /\ after.rx_bases = before.rx_bases
                      /\ after.total_qstates_measured =
                            before.total_qstates_measured
                      /\ UsedUp(after)]_vars

\* A second state has arrived at a party (not an eavesdropper) in a timestep
\* in which it has already measured one from the sender it expects: the
\* receive failed with TypeError and the rx bit and rx basis recorded for
\* that sender in the timestep are in place.
C38_Witness ==
    /\ caller.last = "receive"
    /\ error = "TypeError"
    /\ LET p == parties[caller.uid]
       IN /\ ~p.is_eve
          /\ UsedUp(p)
          /\ p.total_qstates_measured = 1
          /\ p.timestep \in DOMAIN p.rx_bits
          /\ p.tstep_tx_uid \in DOMAIN p.rx_bits[p.timestep]
          /\ p.timestep \in DOMAIN p.rx_bases
          /\ p.tstep_tx_uid \in DOMAIN p.rx_bases[p.timestep]


-----------------------------------------------------------------------------
(* Construction over topologies with and without a chain head or a star    *)
(* leader, and the iterations that follow.                                 *)

\* A directed cycle through k parties: no party is without a predecessor.
CycleEdges(k) == {<<i, (i + 1) % k>> : i \in 0..(k - 1)}

\* ChainedBB84(k, edges=...) and Repeated2PartyQKD(k, edges=...) with the
\* edges handed to NetworkManager as they are.
TopologyCases ==
    {[variant |-> "ChainedBB84", edges |-> e] :
        e \in {PathEdges(2), CycleEdges(2), CycleEdges(3)}}
    \cup
    {[variant |-> "Repeated2PartyQKD", edges |-> e] :
        e \in {StarEdges(2), StarEdges(3), PathEdges(3), CycleEdges(3)}}

InitTopology ==
    \E c \in TopologyCases : Constructed(c.variant, c.edges, {})

NextTopology == RunOneStep

SpecTopology == InitTopology /\ [][NextTopology]_vars

\* The topology has what the protocol needs to start from: a party without
\* predecessors (chained BB84) or a party with an edge to every other party
\* (star protocols).
HasHeadOrLeader ==
    IF proto.variant = "ChainedBB84"
    THEN FirstPartyUid(World, network) # NoUid
    ELSE LeaderUid(World, network) # NoUid

\* C20: a protocol object that construction has handed out (no iteration
\* run yet) has a chain head or a star leader: a topology without one was
\* rejected by the constructor.
C20_RejectedAtConstruction ==
    (caller.last = "init" /\ error = "none") => HasHeadOrLeader


-----------------------------------------------------------------------------
(* Messages on the classical channel: the parties of a star post messages  *)
(* of the three kinds and call the receive methods in any order, so that a *)
(* receive method also runs when its sender has posted nothing of its kind.*)

MessageKinds ==
    {"broadcast_check_bits", "broadcast_flip_bit_instructions",
     "broadcast_key_length"}

\* Whether sender_uid has posted a message of `kind` for `timestep`.
Posted(c, sender_uid, kind, timestep) ==
    /\ sender_uid \in DOMAIN c.tstep_messages
    /\ \E i \in 1..Len(c.tstep_messages[sender_uid]) :
          /\ c.tstep_messages[sender_uid][i].type = kind
          /\ c.tstep_messages[sender_uid][i].timestep = timestep

\* The caller's record: the call is recorded in full when the sender had
\* posted nothing of the kind asked for.
MsgCall(last, uid, sender_uid, kind, posted) ==
    [pc |-> "idle", last |-> last, uid |-> uid, sender_uid |-> sender_uid,
     kind |-> kind, posted |-> posted]

\* A star of StarParties parties in its first iteration, in which at least
\* one leg has sifted a bit.
InitMessages == InitStarKeys /\ nm.timestep = 1

\* Party uid posts a message of one kind, once per kind: every party its
\* check bits, the leader also its flip bit instructions and key length.
Broadcast ==
    /\ error = "none"
    /\ \E uid \in DOMAIN parties :
       \E kind \in {x \in MessageKinds :
                     x # "broadcast_check_bits" => uid = LeaderUid(World, network)} :
         LET p == parties[uid]
             f == broadcast_flip_bit_instructions(cchl, p,
                      IF uid = 0 THEN 1 ELSE 0)
             k == broadcast_key_length(cchl, p, network)
         IN /\ ~Posted(cchl, uid, kind, p.timestep)
            /\ caller' = MsgCall("broadcast", NoUid, NoUid, "", TRUE)
            /\ IF kind = "broadcast_check_bits"
               THEN /\ cchl' = broadcast_check_bits(cchl, p)
                    /\ parties' = parties
               ELSE IF kind = "broadcast_flip_bit_instructions"
               THEN /\ cchl' = f.c
                    /\ parties' = [parties EXCEPT ![uid] = f.p]
               ELSE /\ cchl' = k.c
                    /\ parties' = [parties EXCEPT ![uid] = k.p]
    /\ UNCHANGED <<chans, network, qchls, nm, proto, error>>

\* Party uid, which has found no channel compromised so far, calls the
\* receive method of one kind for the sender sender_uid.
ReceiveMessage ==
    /\ error = "none"
    /\ \E uid \in DOMAIN parties, kind \in MessageKinds :
         \E sender_uid \in DOMAIN parties \ {uid} :
           LET p == parties[uid]
               instrs == get_flip_bit_instructions(cchl, p.timestep, sender_uid)
           IN /\ p.compromised_chls = <<>>
              /\ caller' = IF Posted(cchl, sender_uid, kind, p.timestep)
                            THEN MsgCall("receive", NoUid, NoUid, "", TRUE)
                            ELSE MsgCall("receive", uid, sender_uid, kind, FALSE)
              /\ IF kind = "broadcast_check_bits"
                 THEN /\ parties' = [parties EXCEPT
                                       ![uid] = receive_check_bits(cchl, p, sender_uid)]
                      /\ error' = "none"
                 ELSE IF kind = "broadcast_flip_bit_instructions"
                 THEN IF FlipKeyError(p, instrs, sender_uid)
                      THEN /\ parties' = parties
                           /\ error' = "KeyError"
                      ELSE /\ parties' = [parties EXCEPT ![uid] =
                                  receive_flip_bit_instructions(cchl, p, sender_uid)]
                           /\ error' = "none"
                 ELSE /\ parties' = [parties EXCEPT
                                       ![uid] = receive_msg_key_length(cchl, p, sender_uid)]
                      /\ error' = "none"
    /\ UNCHANGED <<chans, network, qchls, nm, cchl, proto>>

NextMessages == Broadcast \/ ReceiveMessage

SpecMessages == InitMessages /\ [][NextMessages]_vars

\* What the getter of `kind` returns for sender_uid at `timestep`.
Retrieved(c, kind, timestep, sender_uid) ==
    IF kind = "broadcast_check_bits"
    THEN get_msg_check_bits(c, timestep, sender_uid)
    ELSE IF kind = "broadcast_flip_bit_instructions"
    THEN get_flip_bit_instructions(c, timestep, sender_uid)
    ELSE get_msg_key_length(c, timestep, sender_uid)

\* C21: when the sender has posted no message of a kind in the party's
\* timestep, the getter of that kind returns the empty result ({} or, for a
\* key length, math.inf), and the receive method of that kind ends without
\* an error and leaves the party's secret_keys and compromised_chls as they
\* were.
C21_AbsentMessageIsNoError ==
    [][(caller'.last = "receive" /\ ~caller'.posted)
       => LET uid == caller'.uid
              empty == IF caller'.kind = "broadcast_key_length"
                       THEN Inf ELSE EmptyMap
          IN /\ Retrieved(cchl, caller'.kind, parties[uid].timestep,
                          caller'.sender_uid) = empty
             /\ error' = "none"
             /\ parties'[uid].secret_keys = parties[uid].secret_keys
             /\ parties'[uid].compromised_chls = parties[uid].compromised_chls]_vars

\* A peer that holds a key for the leader called receive_msg_key_length for
\* the leader, who had posted check bits and nothing else.
C21_Witness ==
    /\ caller.last = "receive"
    /\ caller.kind = "broadcast_key_length"
    /\ ~caller.posted
    /\ caller.uid = 1 /\ caller.sender_uid = 0
    /\ Posted(cchl, 0, "broadcast_check_bits", parties[1].timestep)
    /\ 0 \in DOMAIN reorder_by_uid(parties[1].secret_keys)

-----------------------------------------------------------------------------
(* reset(): QKDProtocol.reset, NetworkManager.reset, Party.reset,          *)
(* QuantumChannel.reset and ClassicalChannel.reset.                        *)

\* The mutant of party_reset: the secret keys outlive the reset.
party_reset_keep_keys(p) ==
    [f \in DOMAIN p |->
        IF f \in DOMAIN PartyResetFields \ {"secret_keys"}
        THEN PartyResetFields[f] ELSE p[f]]

\* Party.reset: the ledgers, counters and history go back to their values
\* at timestep 0; the sockets and rx_actions of the device are not touched.
party_reset(p) ==
    [f \in DOMAIN p |->
        IF f \in DOMAIN PartyResetFields THEN PartyResetFields[f] ELSE p[f]]

\* QuantumChannel.reset: the devices and `intercepted` are not touched.
chan_reset(ch) ==
    [ch EXCEPT !.timestep = 0, !.tstep_state = NoState,
               !.stored_data = EmptyMap]

\* NetworkManager.reset on the parties and the channels in qchls.
nm_reset(w, q) ==
    LET ids == {q[e] : e \in DOMAIN q}
    IN [w EXCEPT
          !.parties = [u \in DOMAIN @ |-> party_reset(@[u])],
          !.chans = [i \in DOMAIN @ |->
                        IF i \in ids THEN chan_reset(@[i]) ELSE @[i]]]

\* QKDProtocol.reset on the object graph, with its closing next_timestep().
reset(o, q) ==
    LET pr == [o.proto EXCEPT !.timestep = 0,
                              !.num_iterations = 0,
                              !.num_generated_states = 0,
                              !.security = 0,
                              !.key_length = 0,
                              !.stored_data = EmptyMap]
        w1 == nm_reset([o.w EXCEPT !.cchl = NewCchl], q)
        o1 == [w |-> w1,
               nm |-> [o.nm EXCEPT !.timestep = 0],
               proto |-> [pr EXCEPT !.protocol_secure = TRUE]]
    IN next_timestep(o1, q)

\* A call of reset(), at any point between iterations.
Reset ==
    /\ caller.pc = "idle"
    /\ Returns(reset(Graph, qchls))
    /\ caller' = Called("reset")

NextReset == RunOneStep \/ Reset

SpecReset == InitBB84 /\ [][NextReset]_vars

\* C22: after reset(), whatever iterations came before (an aborted run
\* included), the protocol, every party (the eavesdropper included), every
\* quantum channel and the classical channel are as they were right after
\* construction over the same topology, and the graph with its inserted
\* eavesdroppers is unchanged.
C22_ResetRestoresConstruction ==
    [][caller'.last = "reset"
       => LET g == Construct(proto.variant, {<<0, 1>>}, proto.intercepted_edges)
          IN /\ parties' = g.w.parties
             /\ chans' = g.w.chans
             /\ cchl' = g.w.cchl
             /\ nm' = g.nm
             /\ proto' = g.proto
             /\ network' = g.network
             /\ qchls' = g.qchls]_vars

\* reset() was called on an intercepted network after the run was aborted
\* with ledgers filled in.
C22_Witness ==
    /\ caller.last = "reset"
    /\ ~caller.entered
    /\ proto.eavesdropping
    /\ proto.protocol_secure
    /\ \A u \in DOMAIN parties : parties[u].timestep = 1

-----------------------------------------------------------------------------
(* The ledgers between resets.                                             *)

\* Every (timestep, peer) entry of the ledger `before` is in `after` with
\* the same value.
Kept(before, after) ==
    \A t \in DOMAIN before :
        /\ t \in DOMAIN after
        /\ \A u \in DOMAIN before[t] :
              u \in DOMAIN after[t] /\ after[t][u] = before[t][u]

\* C23: between resets, an entry at a (timestep, peer) coordinate of
\* tx_bits, rx_bits, tx_bases, rx_bases, sifted_keys or check_bits is not
\* removed and not changed by a later iteration.
C23_LedgerEntriesPersist ==
    [][caller'.last = "run_one_step"
       => \A u \in DOMAIN parties :
             /\ Kept(parties[u].tx_bits, parties'[u].tx_bits)
             /\ Kept(parties[u].rx_bits, parties'[u].rx_bits)
             /\ Kept(parties[u].tx_bases, parties'[u].tx_bases)
             /\ Kept(parties[u].rx_bases, parties'[u].rx_bases)
             /\ Kept(parties[u].sifted_keys, parties'[u].sifted_keys)
             /\ Kept(parties[u].check_bits, parties'[u].check_bits)]_vars

\* Two iterations ran since the last reset, and the tx, sifted and check
\* entries of the first are held next to those of the second.
C23_Witness ==
    /\ caller.last = "run_one_step"
    /\ proto.num_iterations = 2
    /\ {1, 2} \subseteq DOMAIN parties[0].sifted_keys
    /\ 1 \in DOMAIN parties[0].check_bits
    /\ 1 \in DOMAIN parties[0].tx_bits[1]
    /\ 0 \in DOMAIN parties[1].rx_bases[1]

-----------------------------------------------------------------------------
(* The security arithmetic on its own: required_num_check_bits over the    *)
(* security levels k/SecDen, update_security over drawn check-bit records. *)

\* The security levels whose number of check bits is within ReqCap.
SecurityLevels == {k \in 0..(SecDen - 1) : PowLeq(ReqCap, SecDen - k)}

\* A record of n check bits for the peer uid, one per timestep.
CheckBitRecord(n, uid) == [t \in 1..n |-> [v \in {uid} |-> 0]]

SecurityCall(last, security, n, n0, n1) ==
    [pc |-> "idle", last |-> last, security |-> security, n |-> n,
     n0 |-> n0, n1 |-> n1]

InitSecurity == Constructed("BB84", {<<0, 1>>}, {})

\* A call of required_num_check_bits(k / SecDen).
RequiredNumCheckBits ==
    /\ caller.last = "init"
    /\ \E k \in SecurityLevels :
          caller' = SecurityCall("required_num_check_bits", k,
                                 required_num_check_bits(k), 0, 0)
    /\ UNCHANGED <<parties, chans, network, qchls, nm, cchl, proto, error>>

\* A call of update_security() with n0 check bits held by party 0 and n1 by
\* party 1.
UpdateSecurity ==
    /\ caller.last = "init"
    /\ \E n0 \in 0..ReqCap, n1 \in 0..ReqCap :
          /\ parties' = [parties EXCEPT
                            ![0].sifted_keys = CheckBitRecord(n0, 1),
                            ![0].check_bits = CheckBitRecord(n0, 1),
                            ![1].sifted_keys = CheckBitRecord(n1, 0),
                            ![1].check_bits = CheckBitRecord(n1, 0)]
          /\ proto' = [proto EXCEPT !.security = update_security(parties')]
          /\ caller' = SecurityCall("update_security", proto'.security,
                                    0, n0, n1)
    /\ UNCHANGED <<chans, network, qchls, nm, cchl, error>>

NextSecurity == RequiredNumCheckBits \/ UpdateSecurity

SpecSecurity == InitSecurity /\ [][NextSecurity]_vars

\* n is the least integer >= 0 with (3/4)^n <= 1 - k/SecDen.
IsLeastRequired(n, k) ==
    /\ n >= 0
    /\ PowLeq(n, SecDen - k)
    /\ n > 0 => ~PowLeq(n - 1, SecDen - k)

\* C24: required_num_check_bits(s) is, for 0 <= s < 1, the least integer
\* n >= 0 with (3/4)^n <= 1 - s.
C24_LeastNumCheckBits ==
    caller.last = "required_num_check_bits"
        => IsLeastRequired(caller.n, caller.security)

\* (3/4)^n >= r/SecDen, in integers.
PowGeq(n, r) ==
    IF n <= 7 THEN Pow(3, n) * Pow(4, 7 - n) >= r
    ELSE Pow(3, n) >= r * Pow(4, n - 7)

\* s = k/SecDen is at most 1 - (3/4)^n and within 1/SecDen, which is less
\* than 0.0001, of it.
NearSupremum(k, n) ==
    /\ PowLeq(n, SecDen - k)
    /\ PowGeq(n, SecDen - k - 1)

\* C25: after update_security the security field s needs no more check
\* bits than the shortest record holds, and s is within 0.0001 of the
\* supremum 1 - (3/4)^n of the values with that property.
C25_SecurityNearSupremum ==
    caller.last = "update_security"
        => LET n == Min2(caller.n0, caller.n1)
           IN /\ required_num_check_bits(proto.security) <= n
              /\ NearSupremum(proto.security, n)

\* update_security ran with three check bits on the shorter side: the
\* result is the level just under 1 - (3/4)^3.
C25_Witness ==
    /\ caller.last = "update_security"
    /\ Min2(caller.n0, caller.n1) = 3
    /\ caller.n0 # caller.n1
    /\ proto.security = 9471

-----------------------------------------------------------------------------
(* Intercept-resend on 2-party BB84: the chance that a compared check bit  *)
(* gives the eavesdropper away.  The random choices of an iteration are    *)
(* uniform and the two measurements follow measure_probability2, so the    *)
(* probability of an outcome is counted in quarters.                       *)

\* The choices of an iteration in which the bit is sifted and compared.
ComparedChoices ==
    {c \in BB84Choices(TRUE) : c.use_check /\ c.alice_basis = c.bob_basis}

\* Four times the probability of the result r of BB84.protocol under the
\* choices c: Eve measures Alice's state, Bob measures what Eve forwards.
IterationWeight4(c, r, t) ==
    LET eve_bit == r.w.parties[2].rx_bits[t][0]
        bob_bit == r.w.parties[1].rx_bits[t][0]
    IN measure_probability2(generate_state(c.alice_basis, c.bit),
                            c.eve_basis, eve_bit)
       * measure_probability2(generate_state(c.eve_basis, eve_bit),
                              c.bob_basis, bob_bit)

\* The results of the next iteration over ComparedChoices, each repeated
\* as many times as it has quarters of probability.
WeightedOutcomes ==
    UNION {UNION {{<<c, r, i>> : i \in 1..IterationWeight4(c, r, proto.timestep)}
                  : r \in BB84Protocol(World, proto.timestep, TRUE, c)}
           : c \in ComparedChoices}

\* C26: in 2-party BB84 with an intercept-resend eavesdropper on the only
\* edge, in every state a run can be in while it is still secure, the next
\* compared check bit mismatches and ends the run with probability 1/4,
\* whatever was accumulated before; n compared check bits are therefore
\* survived with probability (3/4)^n.
C26_QuarterDetection ==
    (proto.eavesdropping /\ proto.protocol_secure /\ error = "none")
        => LET detected == {x \in WeightedOutcomes : ~x[2].secure}
           IN /\ Cardinality(WeightedOutcomes) = 4 * Cardinality(ComparedChoices)
              /\ 4 * Cardinality(detected) = Cardinality(WeightedOutcomes)

\* An eavesdropped run that survived the comparison of one check bit.
C26_Witness ==
    /\ proto.eavesdropping
    /\ proto.protocol_secure
    /\ proto.num_iterations = 1
    /\ 1 \in DOMAIN parties[0].check_bits
    /\ 1 \in DOMAIN parties[1].check_bits
    /\ parties[2].rx_bases[1][0] # parties[0].tx_bases[1][1]

-----------------------------------------------------------------------------
(* Sifting, one iteration at a time.                                       *)

\* The ledger holds an entry for peer at timestep t.
Holds(ledger, t, peer) == t \in DOMAIN ledger /\ peer \in DOMAIN ledger[t]

\* C27: in 2-party BB84, with or without an eavesdropper, an iteration adds
\* the bit of its timestep to Alice's and to Bob's sifted keys if and only
\* if Bob measured in the basis Alice transmitted in, whatever basis the
\* eavesdropper used; when the bases differ, no party's sifted_keys or
\* check_bits change in the iteration.
C27_SiftedIffBasesAgree ==
    [][(caller'.last = "run_one_step" /\ proto.protocol_secure /\ error' = "none")
       => LET t == proto.timestep
              alice == parties'[0]
              bob == parties'[1]
              agree == bob.rx_bases[t][0] = alice.tx_bases[t][1]
          IN /\ ~Holds(parties[0].sifted_keys, t, 1)
             /\ ~Holds(parties[1].sifted_keys, t, 0)
             /\ Holds(alice.sifted_keys, t, 1) <=> agree
             /\ Holds(bob.sifted_keys, t, 0) <=> agree
             /\ agree => /\ alice.sifted_keys[t][1] = alice.tx_bits[t][1]
                         /\ bob.sifted_keys[t][0] = bob.rx_bits[t][0]
             /\ ~agree => \A u \in DOMAIN parties :
                             /\ parties'[u].sifted_keys = parties[u].sifted_keys
                             /\ parties'[u].check_bits = parties[u].check_bits]_vars

\* With an eavesdropper who measured in the other basis, a bit was sifted:
\* Bob's basis was Alice's.
C27_Witness ==
    /\ caller.last = "run_one_step"
    /\ proto.eavesdropping
    /\ Holds(parties[0].sifted_keys, 1, 1)
    /\ Holds(parties[1].sifted_keys, 1, 0)
    /\ parties[2].rx_bases[1][0] # parties[0].tx_bases[1][1]
    /\ parties[1].rx_bits[1][0] # parties[0].tx_bits[1][1]

\* The party gained an entry of sifted_keys at timestep t in the step.
Gains(u, t) ==
    /\ t \notin DOMAIN parties[u].sifted_keys
    /\ t \in DOMAIN parties'[u].sifted_keys

\* C28: in an iteration of chained BB84 the bits are sifted if and only if
\* every receiving party measured in the basis the head of the chain
\* transmitted in; either every party of the chain gains a sifted bit at
\* the current timestep or none does.
C28_ChainSiftedIffAllAgree ==
    [][(caller'.last = "run_one_step" /\ proto.variant = "ChainedBB84"
        /\ proto.protocol_secure /\ error' = "none")
       => LET t == proto.timestep
              first == FirstPartyUid(World, network)
              successor_uid == get_successors(network, first)[1]
              head_basis == parties'[first].tx_bases[t][successor_uid]
              agree == \A u \in DOMAIN parties \ {first} :
                          parties'[u].rx_bases[t][get_predecessors(network, u)[1]]
                             = head_basis
          IN /\ \A u \in DOMAIN parties : Gains(u, t) <=> agree
             /\ agree => \A e \in network :
                            /\ Holds(parties'[e[1]].sifted_keys, t, e[2])
                            /\ Holds(parties'[e[2]].sifted_keys, t, e[1])
             /\ ~agree => \A u \in DOMAIN parties :
                             parties'[u].sifted_keys = parties[u].sifted_keys]_vars

\* In the second iteration the first receiver measured in the head's basis
\* and the last one did not: nobody sifted a bit, and the bit of the first
\* iteration is still held by all.
C28_Witness ==
    /\ proto.variant = "ChainedBB84"
    /\ caller.last = "run_one_step"
    /\ proto.num_iterations = 2
    /\ parties[1].rx_bases[2][0] = parties[0].tx_bases[2][1]
    /\ parties[2].rx_bases[2][1] # parties[0].tx_bases[2][1]
    /\ \A u \in DOMAIN parties : DOMAIN parties[u].sifted_keys = {1}

-----------------------------------------------------------------------------
(* Repeated2PartyQKD.protocol, the iteration on a graph with a leader.     *)
(* Party.expect_tx_from and Party.measure_wrt stand for next_qubit_is_from *)
(* and measure_next_qubit_wrt, which PartyTODODelete defines with the same *)
(* bodies and Party does not define (StarProtocol is the call as Party     *)
(* stands).                                                                *)

\* "Set a random measurement basis for each receiving party".
StarArm(w, leader_uid, rx_basis) ==
    [w EXCEPT !.parties = [uid \in DOMAIN @ |->
        IF uid = leader_uid THEN @[uid]
        ELSE measure_wrt(expect_tx_from(@[uid], leader_uid), rx_basis[uid])]]

\* "The leader generates and transmits a qubit for each of the other
\* parties": leader.generate_state(basis[bit]), leader.transmit(state, uid).
\* send_state is not called, so the leader records no tx basis and no tx bit.
RECURSIVE StarSend(_, _, _, _)
StarSend(W, leader_uid, successors, tx) ==
    IF successors = <<>> THEN W
    ELSE LET uid == Head(successors)
             Sent(w) ==
                 IF w.err # "none" THEN {w}
                 ELSE transmit([w EXCEPT
                                  !.parties[leader_uid].total_qstates_generated = @ + 1],
                               leader_uid,
                               generate_state(tx[uid].basis, tx[uid].bit), uid)
         IN StarSend(UNION {Sent(w) : w \in W}, leader_uid, Tail(successors), tx)

\* The announcements: the leader's tx bases, then every successor's rx bases.
RECURSIVE StarAnnounce(_, _, _, _)
StarAnnounce(c, w, successors, timestep) ==
    IF successors = <<>> THEN c
    ELSE StarAnnounce(broadcast_rx_bases(c, w.parties[Head(successors)], timestep),
                      w, Tail(successors), timestep)

\* rx_uids_with_correct_basis: the receivers named in the leader's announced
\* tx bases that announced the same basis.
CorrectBasis(tx_bases, rx_bases, leader_uid) ==
    {rx_uid \in DOMAIN tx_bases[leader_uid] :
        BasesMatch(tx_bases[leader_uid][rx_uid], rx_bases[rx_uid][leader_uid])}

\* "If any of the basis pairs match, then add the bit to the sifted key."
RECURSIVE StarSift(_, _, _, _)
StarSift(w, leader_uid, successors, correct) ==
    IF successors = <<>> THEN w
    ELSE LET uid == Head(successors)
             w1 == IF uid \in correct
                   THEN [w EXCEPT
                           !.parties[leader_uid] = add_bit_to_keys(@, uid),
                           !.parties[uid] = add_bit_to_keys(@, leader_uid)]
                   ELSE [w EXCEPT
                           !.parties[uid] = synch_sifted_and_secret_keys(@)]
         IN StarSift(w1, leader_uid, Tail(successors), correct)

\* "Add the current bit to the check bits", the leader's side.
RECURSIVE LeaderCheckBits(_, _)
LeaderCheckBits(p, uids) ==
    IF uids = <<>> THEN p
    ELSE LeaderCheckBits(add_check_bit(p, Head(uids)), Tail(uids))

\* The comparison of the check bits, receiver by receiver; the iteration
\* aborts on the first receiver that leaves the leader with a compromised
\* channel.  The result is [w, secure].
RECURSIVE StarCompare(_, _, _)
StarCompare(w, leader_uid, uids) ==
    IF uids = <<>> THEN [w |-> w, secure |-> TRUE]
    ELSE LET uid == Head(uids)
             p1 == receive_check_bits(w.cchl, w.parties[uid], leader_uid)
             c1 == broadcast_check_bits(w.cchl, p1)
             l1 == receive_check_bits(c1, w.parties[leader_uid], uid)
             w1 == [w EXCEPT !.cchl = c1, !.parties[uid] = p1,
                             !.parties[leader_uid] = l1]
         IN IF l1.compromised_chls # <<>> THEN [w |-> w1, secure |-> FALSE]
            ELSE StarCompare(w1, leader_uid, Tail(uids))

\* Repeated2PartyQKD.protocol after the transmissions have returned in w.
StarAfterSend(w, net, timestep, leader_uid, use_check) ==
    LET successors == get_successors(net, leader_uid)
        c2 == StarAnnounce(broadcast_tx_bases(w.cchl, w.parties[leader_uid], timestep),
                           w, successors, timestep)
        tx_bases == get_tx_bases(c2, timestep)
        rx_bases == get_rx_bases(c2, timestep)
        found == /\ leader_uid \in DOMAIN tx_bases
                 /\ \A rx_uid \in DOMAIN tx_bases[leader_uid] :
                       /\ rx_uid \in DOMAIN rx_bases
                       /\ leader_uid \in DOMAIN rx_bases[rx_uid]
        correct == CorrectBasis(tx_bases, rx_bases, leader_uid)
        w1 == [w EXCEPT !.cchl = c2]
        w2 == IF correct # {} THEN StarSift(w1, leader_uid, successors, correct)
              ELSE w1
        w3 == [w2 EXCEPT !.parties = [uid \in DOMAIN @ |->
                 IF uid = leader_uid
                 THEN LeaderCheckBits(@[uid], Sorted(correct))
                 ELSE IF uid \in correct THEN add_check_bit(@[uid], leader_uid)
                 ELSE @[uid]]]
        w4 == IF correct # {}
              THEN [w3 EXCEPT !.cchl = broadcast_check_bits(@, w3.parties[leader_uid])]
              ELSE w3
        r == IF use_check THEN StarCompare(w4, leader_uid, Sorted(correct))
             ELSE [w |-> w2, secure |-> TRUE]
    IN IF ~found THEN [w |-> [w1 EXCEPT !.err = "KeyError"], secure |-> TRUE]
       ELSE IF ~r.secure THEN r
       ELSE [w |-> StarReconcile(r.w, net, leader_uid), secure |-> TRUE]

\* Repeated2PartyQKD.protocol: the set of results [w, secure] for the random
\* choices c = [rx_basis (one per receiver), tx (a bit and a basis per
\* receiver), use_check].
StarIteration(w, net, timestep, c) ==
    LET leader_uid == LeaderUid(w, net)
        successors == get_successors(net, leader_uid)
        w1 == StarArm(w, leader_uid, c.rx_basis)
    IN IF leader_uid = NoUid
       THEN {[w |-> [w EXCEPT !.err = "Exception"], secure |-> TRUE]}
       ELSE {IF r.err # "none" THEN [w |-> r, secure |-> TRUE]
             ELSE StarAfterSend(r, net, timestep, leader_uid, c.use_check)
             : r \in StarSend({w1}, leader_uid, successors, c.tx)}

StarChoices(w, net) ==
    LET receivers == DOMAIN w.parties \ {LeaderUid(w, net)}
    IN [rx_basis : [receivers -> Bases],
        tx : [receivers -> [bit : Bits, basis : Bases]],
        use_check : BOOLEAN]

\* The number of iterations of the star that are followed.
StarIterations == 2

\* The caller's record of an iteration: for every receiver, whether it
\* measured in the basis the leader used for it.
StarCall(last, agree) == [pc |-> "idle", last |-> last, agree |-> agree]

InitStar ==
    /\ Constructed("Repeated2PartyQKD", StarEdges(StarParties), {})

\* A call of run_one_step() on the star.
StarRunOneStep ==
    /\ error = "none"
    /\ proto.protocol_secure
    /\ proto.num_iterations < StarIterations
    /\ \E c \in StarChoices(World, network) :
          /\ \E r \in StarIteration(World, network, proto.timestep, c) :
                Returns(AfterIteration(Graph, qchls, r))
          /\ caller' = StarCall("run_one_step",
                                [uid \in 1..(StarParties - 1) |->
                                    c.rx_basis[uid] = c.tx[uid].basis])

NextStar == StarRunOneStep

SpecStar == InitStar /\ [][NextStar]_vars

\* The party gained a sifted bit for peer at timestep t in the step.
GainsFor(u, t, peer) ==
    /\ ~Holds(parties[u].sifted_keys, t, peer)
    /\ Holds(parties'[u].sifted_keys, t, peer)

\* C29: in star-graph protocol 2, for each branch p independently, the
\* leader and p gain a sifted bit for each other at the current timestep if
\* and only if p measured in the basis the leader used for p; a branch with
\* other bases is dropped without protocol_secure becoming false and without
\* a change to the sifted keys of any other branch.
C29_BranchSiftedIffBasesAgree ==
    [][caller'.last = "run_one_step"
       => LET t == proto.timestep
              leader_uid == LeaderUid(World, network)
          IN /\ error' = "none"
             /\ \A uid \in DOMAIN caller'.agree :
                   /\ GainsFor(leader_uid, t, uid) <=> caller'.agree[uid]
                   /\ GainsFor(uid, t, leader_uid) <=> caller'.agree[uid]
             /\ (\A uid \in DOMAIN caller'.agree : ~caller'.agree[uid])
                   => proto'.protocol_secure]_vars

-----------------------------------------------------------------------------
(* Chained BB84 with an eavesdropper on an edge of the chain.              *)

\* ChainedBB84(k, intercepted_edges=...) for every chain of up to
\* ChainParties + 1 parties and every choice of edges to intercept.
InitChainEve ==
    \E k \in 2..(ChainParties + 1) :
        \E intercepted_edges \in (SUBSET PathEdges(k)) \ {{}} :
            Constructed("ChainedBB84", PathEdges(k), intercepted_edges)

NextChainEve == RunOneStep

SpecChainEve == InitChainEve /\ [][NextChainEve]_vars

\* The parties after uid on the path that the graph describes.
RECURSIVE Downstream(_, _)
Downstream(net, uid) ==
    LET successors == get_successors(net, uid)
    IN IF successors = <<>> THEN {}
       ELSE {successors[1]} \cup Downstream(net, successors[1])

\* C30: in chained BB84 with an eavesdropper inserted on an edge of the
\* chain, every iteration runs to completion without an error: the state
\* sent by the head of the chain is measured and forwarded by the
\* eavesdropper and is received by every party downstream of it.
C30_ChainWithEveCompletes ==
    [][(caller'.last = "run_one_step" /\ proto.variant = "ChainedBB84"
        /\ proto.eavesdropping /\ proto.protocol_secure)
       => /\ error' = "none"
          /\ \A eve \in {u \in DOMAIN parties : parties[u].is_eve} :
                /\ parties'[eve].total_qstates_measured
                      = parties[eve].total_qstates_measured + 1
                /\ parties'[eve].total_qstates_forwarded
                      = parties[eve].total_qstates_forwarded + 1
                /\ \A u \in Downstream(network, eve) :
                      parties'[u].total_qstates_received
                         = parties[u].total_qstates_received + 1]_vars

-----------------------------------------------------------------------------
(* Qubit.measure (state.py): one qubit of an n-qubit state, measured with  *)
(* a 1-qubit operator through the operator lifted to the whole state.      *)

MaxQubits == 3

RECURSIVE Pow2(_)
Pow2(n) == IF n = 0 THEN 1 ELSE 2 * Pow2(n - 1)

\* The computational basis state |i> of n qubits.
BasisState(n, i) == [c \in 1..Pow2(n) |-> IF c = i + 1 THEN 1 ELSE 0]

\* Bit p of i, bit 0 being the least significant.
BitOf(i, p) == (i \div Pow2(p)) % 2

\* The mutant of state_evalues: the blocks are laid out from the other end.
state_evalues_reversed(n, pos) ==
    [j \in 1..Pow2(n) |-> ((j - 1) \div Pow2((n - 1) - pos)) % 2]

\* Qubit.measure, lines 166-170:
\* ([0] * 2^pos + [1] * 2^pos) * 2^((n - 1) - pos).
state_evalues(n, pos) ==
    [j \in 1..Pow2(n) |-> ((j - 1) \div Pow2(pos)) % 2]

\* Qubit.measure, lines 172-180: np.kron(np.eye(2^((n - 1) - pos)),
\* np.kron(qubit_evectors, np.eye(2^pos))), where the columns of
\* qubit_evectors are the eigenvectors that eigh returns.  The result is the
\* sequence of the rows of the matrix: row and column indices split into
\* (a, q, b) with b the index into the right-hand identity.
state_evectors(n, pos, qubit_evectors) ==
    LET B == Pow2(pos)
        a(x) == (x - 1) \div (2 * B)
        q(x) == ((x - 1) \div B) % 2
        b(x) == (x - 1) % B
    IN Materialised([r \in 1..Pow2(n) |->
          Materialised([c \in 1..Pow2(n) |->
             IF a(r) = a(c) /\ b(r) = b(c)
             THEN qubit_evectors[q(c) + 1][q(r) + 1]
             ELSE 0])])

\* Qubit.measure(operator), lines 160-187.  get_measurement_operator takes
\* the rows of its second argument as the eigenvectors (V is the transpose).
qubit_measure(psi, n, pos, operator) ==
    LET evalues == state_evalues(n, pos)
        state_operator ==
            get_measurement_operator("lifted",
                [j \in 1..Pow2(n) |-> 2 * evalues[j]],
                state_evectors(n, pos, eigh(operator).evecs))
    IN nqs_measure(psi, state_operator)

\* The n-qubit states that are constructed: the computational basis states
\* (measuring with M_H1 leaves superpositions of them).
QubitStates(n) == {BasisState(n, i) : i \in 0..(Pow2(n) - 1)}


QubitCall(last, n, psi, before, position, operator, measured_value, raised) ==
    [pc |-> "idle", last |-> last, n |-> n, psi |-> psi, before |-> before,
     position |-> position, operator |-> operator,
     measured_value |-> measured_value, raised |-> raised]

\* psi = NQubitState(coefficients) for a state of 1 to MaxQubits qubits.
InitQubit ==
    /\ parties = EmptyMap
    /\ chans = EmptyMap
    /\ cchl = NewCchl
    /\ error = "none"
    /\ network = {}
    /\ qchls = EmptyMap
    /\ nm = [timestep |-> 0, intercepted_edges |-> {}]
    /\ proto = NewProto("none")
    /\ \E n \in 1..MaxQubits :
         \E coefficients \in QubitStates(n) :
           caller = QubitCall("NQubitState", n, normalise(coefficients), <<>>,
                              0, NonSquare, None, "none")

\* psi.get_qubit(position).measure(operator)
QubitMeasure ==
    /\ caller.raised = "none"
    /\ \E position \in 0..(caller.n - 1) :
         \E operator \in {M_S1, M_H1} :
           \E r \in qubit_measure(caller.psi, caller.n, position, operator) :
             caller' = QubitCall("measure", caller.n, r.coefficients,
                                 caller.psi, position, operator,
                                 r.measured_value, r.raised)
    /\ MeasureFrame

NextQubit == QubitMeasure

SpecQubit == InitQubit /\ [][NextQubit]_vars

\* C31: measuring the qubit at position p of the computational basis state
\* |i> of n qubits with the Standard operator returns bit p of i, position 0
\* being the least significant bit, and leaves the state unchanged.
C31_QubitOfBasisState ==
    [][(caller'.last = "measure" /\ caller'.operator = M_S1)
       => \A i \in 0..(Pow2(caller.n) - 1) :
            caller.psi = BasisState(caller.n, i)
            => /\ caller'.raised = "none"
               /\ caller'.measured_value = BitOf(i, caller'.position)
               /\ caller'.psi = caller.psi]_vars

\* Qubits 0 and 1 of |110> (i = 6) were measured with the Standard operator:
\* qubit 0 gave 0, qubit 1 gave 1, and the state is still |110>.
C31_Witness ==
    /\ caller.last = "measure"
    /\ caller.n = 3
    /\ caller.operator = M_S1
    /\ caller.before = BasisState(3, 6)
    /\ caller.psi = BasisState(3, 6)
    /\ caller.position = 1
    /\ caller.measured_value = 1

-----------------------------------------------------------------------------
(* flip_bits_of_secret_keys on its own: one party with drawn secret keys   *)
(* applies a drawn instruction map, as the sender of the instructions or   *)
(* as a receiver of them, once or twice.                                   *)

FlipTimesteps == {1, 2}

\* A ledger over FlipTimesteps whose entries map some of the uids in us to
\* the values in vs.
FlipLedgers(us, vs) ==
    LET entries == UNION {[d -> vs] : d \in SUBSET us}
    IN UNION {[T -> entries] : T \in SUBSET FlipTimesteps}

\* The coordinates of the instructions that the loops of
\* flip_bits_of_secret_keys visit before the one at which it raises KeyError
\* (timesteps and uids in increasing order).
InstrsBeforeKeyError(p, flip_bit_instrs, sender_uid) ==
    LET Bad(timestep, uid) ==
            /\ flip_bit_instrs[timestep][uid]
            /\ IF sender_uid = p.uid
               THEN \/ timestep \notin DOMAIN p.secret_keys
                    \/ uid \notin DOMAIN p.secret_keys[timestep]
               ELSE uid = p.uid /\ timestep \notin DOMAIN p.secret_keys
        Before(timestep, uid) ==
            \A t \in DOMAIN flip_bit_instrs :
              \A u \in DOMAIN flip_bit_instrs[t] :
                Bad(t, u) => (timestep < t \/ (timestep = t /\ uid < u))
        kept(timestep) ==
            {uid \in DOMAIN flip_bit_instrs[timestep] : Before(timestep, uid)}
    IN [timestep \in {t \in DOMAIN flip_bit_instrs : kept(t) # {}} |->
          [uid \in kept(timestep) |-> flip_bit_instrs[timestep][uid]]]

\* A call of flip_bits_of_secret_keys: the party after it, and the exception
\* that ended it.
flip_bits_call(p, flip_bit_instrs, sender_uid) ==
    IF FlipKeyError(p, flip_bit_instrs, sender_uid)
    THEN [p |-> flip_bits_of_secret_keys(
                    p, InstrsBeforeKeyError(p, flip_bit_instrs, sender_uid),
                    sender_uid),
          raised |-> "KeyError"]
    ELSE [p |-> flip_bits_of_secret_keys(p, flip_bit_instrs, sender_uid),
          raised |-> "none"]

FlipCall(last, flip_bit_instrs, sender_uid, original, before, applied, raised) ==
    [pc |-> "idle", last |-> last, flip_bit_instrs |-> flip_bit_instrs,
     sender_uid |-> sender_uid, original |-> original, before |-> before,
     applied |-> applied, raised |-> raised]

\* Party 0 with secret keys for its peers, and the instruction map and
\* sender of the calls that follow.
InitFlip ==
    \E secret_keys \in FlipLedgers(Peers, Bits) :
      \E flip_bit_instrs \in FlipLedgers({0} \cup Peers, BOOLEAN) :
        \E sender_uid \in {0, 1} :
          /\ parties = [uid \in {0} |->
                          [NewParty(0, FALSE) EXCEPT !.secret_keys = secret_keys]]
          /\ chans = EmptyMap
          /\ cchl = NewCchl
          /\ error = "none"
          /\ network = {}
          /\ qchls = EmptyMap
          /\ nm = [timestep |-> 0, intercepted_edges |-> {}]
          /\ proto = NewProto("none")
          /\ caller = FlipCall("init", flip_bit_instrs, sender_uid,
                               secret_keys, secret_keys, 0, "none")

\* party.flip_bits_of_secret_keys(flip_bit_instrs, sender_uid)
FlipBits ==
    /\ caller.applied < 2
    /\ caller.raised = "none"
    /\ LET r == flip_bits_call(parties[0], caller.flip_bit_instrs,
                               caller.sender_uid)
       IN /\ parties' = [parties EXCEPT ![0] = r.p]
          /\ caller' = FlipCall("flip_bits_of_secret_keys",
                                caller.flip_bit_instrs, caller.sender_uid,
                                caller.original, parties[0].secret_keys,
                                caller.applied + 1, r.raised)
    /\ UNCHANGED <<chans, network, qchls, nm, cchl, proto, error>>

NextFlip == FlipBits

SpecFlip == InitFlip /\ [][NextFlip]_vars

\* Whether the instruction map of the call has an instruction set for the
\* key bit of party 0 at (timestep, uid): the sender's instruction for uid,
\* or, at a receiver, the instruction addressed to it for the sender's key.
InstructionSet(timestep, uid) ==
    /\ timestep \in DOMAIN caller.flip_bit_instrs
    /\ IF caller.sender_uid = 0
       THEN /\ uid \in DOMAIN caller.flip_bit_instrs[timestep]
            /\ caller.flip_bit_instrs[timestep][uid]
       ELSE /\ uid = caller.sender_uid
            /\ 0 \in DOMAIN caller.flip_bit_instrs[timestep]
            /\ caller.flip_bit_instrs[timestep][0]

\* C32: a call of flip_bits_of_secret_keys that returns has flipped (bit XOR
\* 1) exactly the key bits whose instruction is set and left every other bit
\* as it was, and a second call with the same instruction map has restored
\* the original key.
C32_FlipsExactlyInstructed ==
    (caller.last = "flip_bits_of_secret_keys" /\ caller.raised = "none") =>
        LET key == parties[0].secret_keys
        IN /\ DOMAIN key = DOMAIN caller.before
           /\ \A timestep \in DOMAIN key :
                /\ DOMAIN key[timestep] = DOMAIN caller.before[timestep]
                /\ \A uid \in DOMAIN key[timestep] :
                     key[timestep][uid] =
                        IF InstructionSet(timestep, uid)
                        THEN (caller.before[timestep][uid] + 1) % 2
                        ELSE caller.before[timestep][uid]
           /\ caller.applied = 2 => key = caller.original

\* The sender applied an instruction map twice that flips its bit of
\* timestep 1 for peer 1 and not its bit of timestep 2 for peer 2.
C32_Witness ==
    /\ caller.last = "flip_bits_of_secret_keys" /\ caller.raised = "none"
    /\ caller.applied = 2
    /\ caller.sender_uid = 0
    /\ InstructionSet(1, 1) /\ ~InstructionSet(2, 2)
    /\ 1 \in DOMAIN caller.before /\ 1 \in DOMAIN caller.before[1]
    /\ 2 \in DOMAIN caller.before /\ 2 \in DOMAIN caller.before[2]
    /\ caller.before[1][1] # parties[0].secret_keys[1][1]
    /\ caller.before[2][2] = parties[0].secret_keys[2][2]

-----------------------------------------------------------------------------
(* Every protocol variant, with and without eavesdroppers, between         *)
(* construction, run_one_step and reset.                                   *)

\* The constructor calls: BB84(eavesdropping=False / True),
\* ChainedBB84(k=ChainParties), Repeated2PartyQKD(k=StarParties), and the
\* chains of InitChainEve with their intercepted edges.
VariantCases ==
    {<<"BB84", {<<0, 1>>}, {}>>,
     <<"BB84", {<<0, 1>>}, {<<0, 1>>}>>,
     <<"ChainedBB84", PathEdges(ChainParties), {}>>,
     <<"Repeated2PartyQKD", StarEdges(StarParties), {}>>}
    \cup UNION {{<<"ChainedBB84", PathEdges(k), intercepted_edges>>
                    : intercepted_edges \in (SUBSET PathEdges(k)) \ {{}}}
                : k \in 2..(ChainParties + 1)}

InitVariants ==
    \E case \in VariantCases : Constructed(case[1], case[2], case[3])

NextVariants == RunOneStep \/ Reset

SpecVariants == InitVariants /\ [][NextVariants]_vars

\* At least one party has recorded a compromised channel.
SomeChannelCompromised ==
    \E uid \in DOMAIN parties : parties[uid].compromised_chls # <<>>

\* C33: after every run_one_step, in any protocol variant, protocol_secure is
\* false if and only if at least one party's compromised_chls is non-empty.
C33_InsecureIffCompromised ==
    caller.last = "run_one_step" =>
        (~proto.protocol_secure <=> SomeChannelCompromised)

\* An iteration of BB84 with an eavesdropper compared check bits that differ:
\* Alice and Bob have each recorded the other's channel and the protocol has
\* aborted.
C33_Witness ==
    /\ caller.last = "run_one_step"
    /\ caller.entered
    /\ proto.variant = "BB84"
    /\ ~proto.protocol_secure
    /\ parties[0].compromised_chls = <<1>>
    /\ parties[1].compromised_chls = <<0>>

-----------------------------------------------------------------------------
(* Intercept-resend on 2-party BB84: what the eavesdropper's basis decides. *)

\* The entry of a ledger at (timestep, uid), None when there is none.
At(ledger, timestep, uid) ==
    IF timestep \in DOMAIN ledger /\ uid \in DOMAIN ledger[timestep]
    THEN ledger[timestep][uid]
    ELSE None

\* C34: in 2-party BB84 with an eavesdropper on the only edge, in every
\* iteration in which Eve's and Bob's measurement bases both equal Alice's
\* transmit basis, the bits that Eve and Bob record equal Alice's bit; and
\* an iteration that aborts is one in which Eve's basis differed from
\* Alice's.
C34_AbortOnlyWhenEveBasisDiffers ==
    [][(/\ caller'.last = "run_one_step"
        /\ proto.variant = "BB84"
        /\ proto.eavesdropping
        /\ proto.protocol_secure)
       => LET timestep == proto.timestep
              alice_basis == At(parties'[0].tx_bases, timestep, 1)
              alice_bit == At(parties'[0].tx_bits, timestep, 1)
              eve_basis == At(parties'[2].rx_bases, timestep, 0)
              eve_bit == At(parties'[2].rx_bits, timestep, 0)
              bob_basis == At(parties'[1].rx_bases, timestep, 0)
              bob_bit == At(parties'[1].rx_bits, timestep, 0)
          IN /\ error' = "none"
             /\ alice_basis \in Bases /\ eve_basis \in Bases
             /\ bob_basis \in Bases
             /\ (eve_basis = alice_basis /\ bob_basis = alice_basis)
                   => (eve_bit = alice_bit /\ bob_bit = alice_bit)
             /\ ~proto'.protocol_secure => eve_basis # alice_basis]_vars

\* Eve and Bob both measured the state of timestep 1 in Alice's basis and
\* recorded her bit, the bit was compared as a check bit, and the protocol
\* went on to timestep 2.
C34_Witness ==
    /\ caller.last = "run_one_step"
    /\ proto.variant = "BB84" /\ proto.eavesdropping
    /\ proto.protocol_secure /\ proto.timestep = 2
    /\ At(parties[0].tx_bases, 1, 1) = "HAD"
    /\ At(parties[2].rx_bases, 1, 0) = "HAD"
    /\ At(parties[1].rx_bases, 1, 0) = "HAD"
    /\ At(parties[0].tx_bits, 1, 1) = 1
    /\ At(parties[2].rx_bits, 1, 0) = 1
    /\ At(parties[1].rx_bits, 1, 0) = 1
    /\ Holds(parties[0].check_bits, 1, 1)
    /\ Holds(parties[1].check_bits, 1, 0)

-----------------------------------------------------------------------------
(* The timestep counters of the object graph, with add_eavesdropping       *)
(* called at construction or at any later time.                            *)

\* QKDProtocol.add_eavesdropping(edges) on a network without eavesdroppers.
AddEavesdropping ==
    /\ caller.pc = "idle"
    /\ error = "none"
    /\ ~proto.eavesdropping
    /\ \E edges \in (SUBSET network) \ {{}} :
         LET g == intercept_edges(World, network, qchls, edges)
         IN /\ parties' = g.w.parties
            /\ chans' = g.w.chans
            /\ cchl' = g.w.cchl
            /\ error' = g.w.err
            /\ network' = g.network
            /\ qchls' = g.qchls
            /\ nm' = [nm EXCEPT !.intercepted_edges = edges]
            /\ proto' = [proto EXCEPT !.eavesdropping = TRUE,
                                      !.intercepted_edges = edges]
    /\ caller' = Called("add_eavesdropping")

InitTimesteps == InitBB84 \/ InitChain

NextTimesteps == RunOneStep \/ Reset \/ AddEavesdropping

SpecTimesteps == InitTimesteps /\ [][NextTimesteps]_vars

\* C35: whenever no call is in progress, the protocol's timestep is the
\* timestep of the network manager, of the classical channel, of every party
\* (inserted eavesdroppers included) and of every quantum channel (channels
\* created by eavesdropper insertion included).
C35_TimestepsAgree ==
    caller.pc = "idle" =>
        /\ nm.timestep = proto.timestep
        /\ cchl.timestep = proto.timestep
        /\ \A uid \in DOMAIN parties : parties[uid].timestep = proto.timestep
        /\ \A edge \in DOMAIN qchls :
              chans[qchls[edge]].timestep = proto.timestep

\* C36: num_iterations counts every executed iteration, an aborting one
\* included: between resets, timestep = num_iterations + 1 as long as
\* protocol_secure is true, and timestep = num_iterations once the protocol
\* has aborted.
C36_TimestepCountsIterations ==
    IF proto.protocol_secure
    THEN proto.timestep = proto.num_iterations + 1
    ELSE proto.timestep = proto.num_iterations

\* The first iteration after a reset aborted: it is counted, and the
\* timestep has stayed at 1.
C36_Witness ==
    /\ caller.last = "run_one_step" /\ caller.entered
    /\ ~proto.protocol_secure
    /\ proto.num_iterations = 1
    /\ proto.timestep = 1
    /\ 2 \in DOMAIN parties /\ parties[2].is_eve
    /\ parties[2].total_qstates_measured = 1

\* C37: after n iterations have been executed, get_stored_data_for_timestep(t)
\* returns a snapshot without failing for every t from 0 to n, the range of
\* the visualization's slider (0 to num_iterations).
C37_SliderRangeStored ==
    (caller.last = "get_stored_data_for_timestep"
        /\ caller.t <= proto.num_iterations)
    => caller.raised = "none"


-----------------------------------------------------------------------------
(* QKDProtocol.calculate_qubit_counts: the totals over all the parties.    *)

RECURSIVE SumOverParties(_, _, _)
SumOverParties(ps, uids, field) ==
    IF uids = {} THEN 0
    ELSE LET u == CHOOSE x \in uids : TRUE
         IN ps[u][field] + SumOverParties(ps, uids \ {u}, field)

\* calculate_qubit_counts(): (generated, transmitted, received).
calculate_qubit_counts(ps) ==
    [generated |-> SumOverParties(ps, DOMAIN ps, "total_qstates_generated"),
     transmitted |-> SumOverParties(ps, DOMAIN ps, "total_qstates_transmitted"),
     received |-> SumOverParties(ps, DOMAIN ps, "total_qstates_received")]

\* C39: after every iteration the states transmitted, summed over all the
\* parties, are as many as the states received, summed over all the parties,
\* in networks with and without eavesdroppers.
C39_TransmittedEqualsReceived ==
    LET counts == calculate_qubit_counts(parties)
    IN counts.transmitted = counts.received

\* An iteration of BB84 with an eavesdropper has run: Alice transmitted one
\* state, Eve received it and forwarded it, Bob received it; two
\* transmissions and two receipts for one generated state.
C39_Witness ==
    /\ caller.last = "run_one_step" /\ caller.entered
    /\ error = "none"
    /\ proto.eavesdropping
    /\ \E e \in DOMAIN parties :
         /\ parties[e].is_eve
         /\ parties[e].total_qstates_received = 1
         /\ parties[e].total_qstates_transmitted = 1
    /\ calculate_qubit_counts(parties)
         = [generated |-> 1, transmitted |-> 2, received |-> 2]


-----------------------------------------------------------------------------
(* run() without an iteration count, under fair random choices.  A pass of *)
(* the loop of run is taken in two steps: the random choices of the        *)
(* iteration fall into one of three kinds of round (Bob's basis differs    *)
(* from Alice's; the bases match and random.random() >= check_bit_prob;    *)
(* the bases match and random.random() < check_bit_prob), then             *)
(* run_one_step executes with choices of that kind.  With 0 <              *)
(* check_bit_prob < 1 each kind is possible in every round.                *)

Rounds == {"mismatch", "key", "check"}

\* The kind of round that the random choices c of BB84.protocol make.
RoundOf(c) ==
    IF ~BasesMatch(c.bob_basis, c.alice_basis) THEN "mismatch"
    ELSE IF c.use_check THEN "check"
    ELSE "key"

\* The caller's record with the kind of round drawn ("none" between rounds).
WithRound(c, round) ==
    [f \in (DOMAIN c) \cup {"round"} |-> IF f = "round" THEN round ELSE c[f]]

\* The bits the loop of run still waits for: key bits and check bits.
StillNeeded(ps, c) ==
    LET num_key_bits == get_shortest_key_length(ps)
        num_check_bits == get_shortest_check_bits(ps)
    IN (IF num_key_bits < c.key_length THEN c.key_length - num_key_bits ELSE 0)
       + (IF num_check_bits < c.required THEN c.required - num_check_bits ELSE 0)

\* A round of this kind adds a bit the loop waits for.
RoundNeeded(round) ==
    \/ round = "key" /\ get_shortest_key_length(parties) < caller.key_length
    \/ round = "check" /\ get_shortest_check_bits(parties) < caller.required

\* The iterations of one call of run within the model's bound: those that
\* the bits asked for take, and one more without an eavesdropper.
FairBound(c, pr) ==
    c.key_length + c.required + (IF pr.eavesdropping THEN 0 ELSE 1)

\* The one call of run(security=..., key_length=...) on the new protocol
\* (for one key bit when there is an eavesdropper).
FairRunCall ==
    /\ caller.pc = "idle"
    /\ caller.last = "init"
    /\ error = "none"
    /\ \E security \in SecurityInputs,
          key_length \in 1..(IF proto.eavesdropping THEN 1 ELSE MaxKeyLen) :
        caller' = WithRound([Called("run") EXCEPT
                               !.pc = "run", !.key_length = key_length,
                               !.required = required_num_check_bits(security)],
                            "none")
    /\ UNCHANGED <<parties, chans, network, qchls, nm, cchl, proto, error>>

\* The loop of run goes on and the random choices of the iteration make a
\* round of the given kind.  A round that adds nothing the loop waits for is
\* drawn only while the iterations left below FairBound suffice for the bits
\* still needed.
RunDraw(round) ==
    /\ caller.pc = "run"
    /\ caller.round = "none"
    /\ error = "none"
    /\ RunContinue(proto, parties, caller)
    /\ \/ RoundNeeded(round)
       \/ proto.num_iterations + StillNeeded(parties, caller) + 1
             <= FairBound(caller, proto)
    /\ caller' = WithRound(caller, round)
    /\ UNCHANGED <<parties, chans, network, qchls, nm, cchl, proto, error>>

RunDrawMismatch == RunDraw("mismatch")

RunDrawKeyBit == RunDraw("key")

RunDrawCheckBit == RunDraw("check")

\* The condition under which RunIterDrawn can be taken.
RunIterDrawnEnabled ==
    /\ caller.pc = "run"
    /\ caller.round \in Rounds
    /\ error = "none"
    /\ proto.num_iterations < FairBound(caller, proto)

\* The pass of the loop of run: run_one_step with random choices of the
\* kind drawn.
RunIterDrawn ==
    /\ RunIterDrawnEnabled
    /\ caller' = WithRound(caller, "none")
    /\ \E c \in {x \in BB84Choices(proto.eavesdropping) :
                    RoundOf(x) = caller.round} :
         \E r \in BB84Protocol(World, proto.timestep, proto.eavesdropping, c) :
           Returns(AfterIteration(Graph, qchls, r))

NextRunFair ==
    \/ FairRunCall
    \/ RunDrawMismatch
    \/ RunDrawKeyBit
    \/ RunDrawCheckBit
    \/ RunIterDrawn
    \/ RunExit

\* The program keeps executing: weak fairness of the call, of the pass of
\* the loop and of the exit from the loop (WF_vars(RunIterDrawn) is written
\* out, []<>~ENABLED \/ []<><<A>>_vars, with RunIterDrawnEnabled for its
\* ENABLED).  The random choices are fair: a kind of matching round that is
\* possible again and again is drawn again and again.
SpecRunFair ==
    /\ InitBB84
    /\ [][NextRunFair]_vars
    /\ WF_vars(FairRunCall)
    /\ WF_vars(RunExit)
    /\ ([]<>(~RunIterDrawnEnabled) \/ []<><<RunIterDrawn>>_vars)
    /\ SF_vars(RunDrawKeyBit)
    /\ SF_vars(RunDrawCheckBit)

=============================================================================
